---- MODULE Spec2Model ----
(***************************************************************************)
(* Left-leaning red-black tree with execution tracing (src/js/llrb.js,     *)
(* current revision, lines 523-1115).                                      *)
(*                                                                         *)
(* The tree is a graph of mutable Node objects; a node's identity is a     *)
(* natural number and Null is 0.  Every recursive call of the program is   *)
(* an activation record on `stack'; one transition runs the code of the    *)
(* innermost call from one tracer.addStep to the next one, to the next     *)
(* call, or to its return.  The tracer's log and its callStack are the     *)
(* objects of class ExecutionTracer.                                       *)
(***************************************************************************)
EXTENDS Integers, Sequences, FiniteSets, TLC

(* Bounds of the model *)
MaxKey == 4
Keys == 1..MaxKey

(* Program constants: llrb.js 523-524 *)
RED == TRUE
BLACK == FALSE

(* null node reference; JavaScript undefined (of h?.value) *)
Null == 0
Undefined == -1
(* serializeNode(null) *)
NullTree == <<>>
(* {} *)
EmptyVars == <<>>

VARIABLES
    nodes,       \* the Node objects: id -> [value, color, left, right]
    root,        \* LLRBTree.root
    steps,       \* content of the array object tracer.steps refers to
    stepsId,     \* identity of that array object
    callStack,   \* tracer.callStack
    stack,       \* activation records of the calls still active, oldest first
    ret,         \* value returned by the call that returned last
    fault,       \* a TypeError (property of null) was raised
    heldId,      \* identity of the step array the caller received last (0: none)
    heldOld,     \* content of that array object once the tracer dropped it
    hist,        \* the operation in progress or completed last, and the tree it started from
    sinceClear   \* the operations called since the last clear(), while they are MaxOps at most

(* heap.js, class Heap, and the code that calls it *)
VARIABLES
    hNodes,      \* Heap.nodes: the Map from node id (the number in "n<k>") to the record object stored under it
    hNextId,     \* Heap.nextId
    hObjs,       \* the record objects: object identity -> [value, color, left, right]
    callerRec,   \* the record object a caller of the heap holds (0: none)
    hCall,       \* the heap method called last, its id argument and its result
    hIssued      \* the ids Heap.allocate has returned so far

(* heap.js, class ExecutionContext *)
VARIABLES
    ctxStack,    \* ExecutionContext.stack: frames [funcName, vars], oldest first
    ctxCall      \* the context method called last, its name argument and its result

(* class PseudocodeDisplay and the playback controls of class LLRBApp *)
VARIABLES
    pdSteps,           \* PseudocodeDisplay.steps (the steps by their number)
    currentStepIndex,  \* PseudocodeDisplay.currentStepIndex
    isPlaying,         \* LLRBApp.isPlaying
    playInterval,      \* LLRBApp.playInterval (0: null)
    playDisabled,      \* elements.playPauseBtn.disabled
    appCall,           \* the handler that ran last and what it returned
    quiet              \* the user gives no further input

treeVars == <<nodes, root, steps, stepsId, callStack, stack, ret, fault, heldId, heldOld, hist,
              sinceClear>>
heapVars == <<hNodes, hNextId, hObjs, callerRec, hCall, hIssued>>
ctxVars == <<ctxStack, ctxCall>>
appVars == <<pdSteps, currentStepIndex, isPlaying, playInterval, playDisabled, appCall, quiet>>

vars == <<treeVars, heapVars, ctxVars, appVars>>

----------------------------------------------------------------------------
NodeBlack(value) == [value |-> value, left |-> Null, right |-> Null, color |-> FALSE]

(* class Node: constructor *)
Node(value) == [value |-> value, left |-> Null, right |-> Null, color |-> RED]

(* An unused identity for a freshly constructed object *)
FreshId(nds) == CHOOSE i \in 1..(Cardinality(DOMAIN nds) + 1) : i \notin DOMAIN nds

(* LLRBTree.isRed *)
isRed(nds, node) == IF node = Null THEN FALSE ELSE nds[node].color = RED

rightLeaningNever(nds, h) == FALSE

(* isRed(h.right) && !isRed(h.left): insertRecursive, before rotateLeft *)
rightLeaning(nds, h) == isRed(nds, nds[h].right) /\ ~isRed(nds, nds[h].left)

bothRedNever(nds, h) == FALSE

(* isRed(h.left) && isRed(h.right): insertRecursive and fixUp, before colorFlip *)
bothRed(nds, h) == isRed(nds, nds[h].left) /\ isRed(nds, nds[h].right)

(* LLRBTree.serializeNode *)
RECURSIVE serializeNode(_, _)
serializeNode(nds, node) ==
    IF node = Null THEN NullTree
    ELSE [value |-> nds[node].value,
          color |-> IF nds[node].color THEN "red" ELSE "black",
          left  |-> serializeNode(nds, nds[node].left),
          right |-> serializeNode(nds, nds[node].right)]

(* LLRBTree.search *)
RECURSIVE search(_, _, _)
search(nds, node, value) ==
    IF node = Null THEN Null
    ELSE IF value < nds[node].value THEN search(nds, nds[node].left, value)
    ELSE IF value > nds[node].value THEN search(nds, nds[node].right, value)
    ELSE node

containsAlways(value) == TRUE

(* LLRBTree.contains *)
contains(value) == search(nodes, root, value) # Null

(* LLRBTree.minNode *)
RECURSIVE minNode(_, _)
minNode(nds, node) ==
    IF nds[node].left = Null THEN node ELSE minNode(nds, nds[node].left)

(* LLRBTree.countNodes *)
RECURSIVE countNodes(_, _)
countNodes(nds, node) ==
    IF node = Null THEN 0
    ELSE 1 + countNodes(nds, nds[node].left) + countNodes(nds, nds[node].right)

Max(a, b) == IF a > b THEN a ELSE b
Min(a, b) == IF a < b THEN a ELSE b

(* LLRBTree.height *)
RECURSIVE height(_, _)
height(nds, node) ==
    IF node = Null THEN 0
    ELSE 1 + Max(height(nds, nds[node].left), height(nds, nds[node].right))

(* LLRBTree.getStats *)
getStats == [nodeCount |-> countNodes(nodes, root), height |-> height(nodes, root)]

----------------------------------------------------------------------------
(* The machine: the mutable objects a transition reads and writes *)
Cur == [nodes |-> nodes, root |-> root, steps |-> steps, callStack |-> callStack,
        stack |-> stack, ret |-> ret, fault |-> fault]

Top(m) == m.stack[Len(m.stack)]
Goto(m, pc) == [m EXCEPT !.stack[Len(m.stack)].pc = pc]
SetLocal(m, f) == [m EXCEPT !.stack[Len(m.stack)] = f]

(* the values of the subtree of a node, in in-order sequence *)
RECURSIVE InOrderVals(_, _)
InOrderVals(nds, node) ==
    IF node = Null THEN <<>>
    ELSE InOrderVals(nds, nds[node].left) \o <<nds[node].value>>
         \o InOrderVals(nds, nds[node].right)

(* An activation record: the function, its position, its parameters and
   locals; keys0 records the in-order values of the subtree the call was
   given. *)
Frame(m, fn, h, key) == [fn |-> fn, pc |-> "entry", h |-> h, key |-> key,
                         x |-> Null, newNode |-> Null, minNode |-> Null,
                         keys0 |-> InOrderVals(m.nodes, h)]

(* a call expression: the caller resumes at cont *)
Invoke(m, fn, h, key, cont) ==
    [Goto(m, cont) EXCEPT !.stack = Append(@, Frame(m, fn, h, key))]

ReturnNever(m, v) == m

ReturnIntoRoot(m, v) ==
    [m EXCEPT !.stack = SubSeq(@, 1, Len(@) - 1), !.ret = v, !.root = v]

(* a return statement *)
Return(m, v) == [m EXCEPT !.stack = SubSeq(@, 1, Len(@) - 1), !.ret = v]

(* property access on null *)
Throw(m) == [m EXCEPT !.fault = TRUE]

(* h.value, h?.value *)
Val(m, h) == m.nodes[h].value
OptVal(m, h) == IF h = Null THEN Undefined ELSE m.nodes[h].value

(* ExecutionTracer.pushCall *)
pushCall(m, funcName, params) ==
    [m EXCEPT !.callStack = Append(@, [funcName |-> funcName, params |-> params])]
popCallSkipped(m) == m

(* ExecutionTracer.popCall *)
popCall(m) ==
    [m EXCEPT !.callStack = IF Len(@) = 0 THEN @ ELSE SubSeq(@, 1, Len(@) - 1)]

serializeTreeEmpty(m) == NullTree

(* LLRBTree.serializeTree *)
serializeTree(m) == serializeNode(m.nodes, m.root)

addStepFInFront(m, funcName, lineNumber, variables, floatingNodes) ==
    [m EXCEPT !.steps =
        <<[funcName      |-> funcName,
           lineNumber    |-> lineNumber,
           callStack     |-> m.callStack,
           variables     |-> variables,
           treeState     |-> serializeTree(m),
           floatingNodes |-> floatingNodes]>> \o @]

(* ExecutionTracer.addStep *)
addStepF(m, funcName, lineNumber, variables, floatingNodes) ==
    [m EXCEPT !.steps = Append(@,
        [funcName      |-> funcName,
         lineNumber    |-> lineNumber,
         callStack     |-> m.callStack,
         variables     |-> variables,
         treeState     |-> serializeTree(m),
         floatingNodes |-> floatingNodes])]
addStep(m, funcName, lineNumber, variables) ==
    addStepF(m, funcName, lineNumber, variables, <<>>)

(* addStep followed by the position after it *)
StepTo(m, funcName, lineNumber, variables, pc) ==
    Goto(addStep(m, funcName, lineNumber, variables), pc)

floatingXNone(m, x) == <<>>

(* floatingX of rotateLeft / rotateRight *)
floatingX(m, x) ==
    IF x # Null THEN <<[label |-> "x", tree |-> serializeNode(m.nodes, x)]>> ELSE <<>>

setLeftUnlessNull(m, h, v) == IF v = Null THEN m ELSE [m EXCEPT !.nodes[h].left = v]

(* h.left = <the node returned by the recursive call> *)
setLeft(m, h, v) == [m EXCEPT !.nodes[h].left = v]

rotateLeftDetachOuter(m, h, x) == [m EXCEPT !.nodes[h].right = m.nodes[x].right]

(* rotateLeft: h.right = x.left *)
rotateLeftDetach(m, h, x) == [m EXCEPT !.nodes[h].right = m.nodes[x].left]

rotateRightDetachOuter(m, h, x) == [m EXCEPT !.nodes[h].left = m.nodes[x].left]

(* rotateRight: h.left = x.right *)
rotateRightDetach(m, h, x) == [m EXCEPT !.nodes[h].left = m.nodes[x].right]

replaceValueSkipped(m, h, mn) == m

(* deleteRecursive: h.value = minNode.value *)
replaceValue(m, h, mn) == [m EXCEPT !.nodes[h].value = m.nodes[mn].value]

assignRootIfEmpty(m) == IF m.root = Null THEN [m EXCEPT !.root = m.ret] ELSE m

(* this.root = <the node returned by the top-level recursive call> *)
assignRoot(m) == [m EXCEPT !.root = m.ret]

----------------------------------------------------------------------------
keyLessOrEqual(m, h, key) == key <= Val(m, h)

(* insertRecursive: key < h.value *)
keyLess(m, h, key) == key < Val(m, h)

(* LLRBTree.insertRecursive *)
insertRecursiveBody(m) ==
    LET f == Top(m)
        h == f.h
        key == f.key
        hv == [h |-> Val(m, h)]
    IN CASE f.pc = "entry" ->
              Goto(addStep(pushCall(m, "insert", [h |-> OptVal(m, h), key |-> key]),
                           "insert", 0, [h |-> OptVal(m, h), key |-> key]), "0")
         [] f.pc = "0" -> StepTo(m, "insert", 2, [h |-> OptVal(m, h), key |-> key], "2")
         [] f.pc = "2" ->
              IF h = Null
              THEN LET id == FreshId(m.nodes)
                       m1 == [m EXCEPT !.nodes = [i \in DOMAIN @ \cup {id} |->
                                                    IF i = id THEN Node(key) ELSE @[i]]]
                       m2 == SetLocal(m1, [f EXCEPT !.newNode = id])
                   IN StepTo(m2, "insert", 2,
                             [h |-> Null, key |-> key, result |-> "new node"], "2n")
              ELSE StepTo(m, "insert", 4, [h |-> Val(m, h), key |-> key], "4")
         [] f.pc = "2n" -> Return(popCall(m), f.newNode)
         [] f.pc = "4" ->
              IF keyLess(m, h, key)
              THEN StepTo(m, "insert", 5, [h |-> Val(m, h), key |-> key], "5")
              ELSE IF key > Val(m, h)
              THEN StepTo(m, "insert", 6, [h |-> Val(m, h), key |-> key], "6")
              ELSE StepTo(m, "insert", 7, [h |-> Val(m, h), key |-> key], "7")
         [] f.pc = "5" -> Invoke(m, "insert", m.nodes[h].left, key, "5r")
         [] f.pc = "5r" ->
              StepTo(setLeft(m, h, m.ret), "insert", 9, hv, "9")
         [] f.pc = "6" -> Invoke(m, "insert", m.nodes[h].right, key, "6r")
         [] f.pc = "6r" ->
              StepTo([m EXCEPT !.nodes[h].right = m.ret], "insert", 9, hv, "9")
         [] f.pc = "7" -> StepTo(m, "insert", 9, hv, "9")
         [] f.pc = "9" ->
              IF rightLeaning(m.nodes, h)
              THEN Invoke(m, "rotateLeft", h, 0, "9r")
              ELSE StepTo(m, "insert", 10, hv, "10")
         [] f.pc = "9r" ->
              StepTo(SetLocal(m, [f EXCEPT !.h = m.ret]), "insert", 10,
                     [h |-> Val(m, m.ret)], "10")
         [] f.pc = "10" ->
              IF /\ isRed(m.nodes, m.nodes[h].left)
                 /\ m.nodes[h].left # Null
                 /\ isRed(m.nodes, m.nodes[m.nodes[h].left].left)
              THEN Invoke(m, "rotateRight", h, 0, "10r")
              ELSE StepTo(m, "insert", 11, hv, "11")
         [] f.pc = "10r" ->
              StepTo(SetLocal(m, [f EXCEPT !.h = m.ret]), "insert", 11,
                     [h |-> Val(m, m.ret)], "11")
         [] f.pc = "11" ->
              IF bothRed(m.nodes, h)
              THEN Invoke(m, "colorFlip", h, 0, "11r")
              ELSE StepTo(m, "insert", 13, [h |-> Val(m, h), result |-> "return"], "13")
         [] f.pc = "11r" ->
              StepTo(m, "insert", 13, [h |-> Val(m, h), result |-> "return"], "13")
         [] f.pc = "13" -> Return(popCall(m), h)

(* LLRBTree.rotateLeft *)
rotateLeftBody(m) ==
    LET f == Top(m)
        h == f.h
        x == f.x
        hx == [h |-> Val(m, h), x |-> Val(m, x)]
    IN CASE f.pc = "entry" ->
              Goto(addStep(pushCall(m, "rotateLeft", [h |-> Val(m, h)]),
                           "rotateLeft", 0, [h |-> Val(m, h)]), "0")
         [] f.pc = "0" -> StepTo(m, "rotateLeft", 2, [h |-> Val(m, h)], "2")
         [] f.pc = "2" ->
              LET x0 == m.nodes[h].right
                  m1 == SetLocal(m, [f EXCEPT !.x = x0])
              IN IF x0 = Null THEN Throw(m1)
                 ELSE Goto(addStepF(m1, "rotateLeft", 3,
                                    [h |-> Val(m, h), x |-> Val(m, x0)],
                                    floatingX(m1, x0)), "3a")
         [] f.pc = "3a" ->
              LET m1 == rotateLeftDetach(m, h, x)
              IN Goto(addStepF(m1, "rotateLeft", 3, hx, floatingX(m1, x)), "3b")
         [] f.pc = "3b" ->
              Goto(addStepF(m, "rotateLeft", 4, hx, floatingX(m, x)), "4a")
         [] f.pc = "4a" ->
              LET m1 == [m EXCEPT !.nodes[x].left = h]
              IN Goto(addStepF(m1, "rotateLeft", 4, hx, floatingX(m1, x)), "4b")
         [] f.pc = "4b" ->
              Goto(addStepF(m, "rotateLeft", 5, hx, floatingX(m, x)), "5")
         [] f.pc = "5" ->
              LET m1 == [m EXCEPT !.nodes[x].color = m.nodes[h].color]
              IN Goto(addStepF(m1, "rotateLeft", 6, hx, floatingX(m1, x)), "6")
         [] f.pc = "6" ->
              LET m1 == [m EXCEPT !.nodes[h].color = RED]
              IN Goto(addStepF(m1, "rotateLeft", 7,
                               [h |-> Val(m, h), x |-> Val(m, x), result |-> Val(m, x)],
                               floatingX(m1, x)), "7")
         [] f.pc = "7" -> Return(popCall(m), x)

(* LLRBTree.rotateRight *)
rotateRightBody(m) ==
    LET f == Top(m)
        h == f.h
        x == f.x
        hx == [h |-> Val(m, h), x |-> Val(m, x)]
    IN CASE f.pc = "entry" ->
              Goto(addStep(pushCall(m, "rotateRight", [h |-> Val(m, h)]),
                           "rotateRight", 0, [h |-> Val(m, h)]), "0")
         [] f.pc = "0" -> StepTo(m, "rotateRight", 2, [h |-> Val(m, h)], "2")
         [] f.pc = "2" ->
              LET x0 == m.nodes[h].left
                  m1 == SetLocal(m, [f EXCEPT !.x = x0])
              IN IF x0 = Null THEN Throw(m1)
                 ELSE Goto(addStepF(m1, "rotateRight", 3,
                                    [h |-> Val(m, h), x |-> Val(m, x0)],
                                    floatingX(m1, x0)), "3a")
         [] f.pc = "3a" ->
              LET m1 == rotateRightDetach(m, h, x)
              IN Goto(addStepF(m1, "rotateRight", 3, hx, floatingX(m1, x)), "3b")
         [] f.pc = "3b" ->
              Goto(addStepF(m, "rotateRight", 4, hx, floatingX(m, x)), "4a")
         [] f.pc = "4a" ->
              LET m1 == [m EXCEPT !.nodes[x].right = h]
              IN Goto(addStepF(m1, "rotateRight", 4, hx, floatingX(m1, x)), "4b")
         [] f.pc = "4b" ->
              Goto(addStepF(m, "rotateRight", 5, hx, floatingX(m, x)), "5")
         [] f.pc = "5" ->
              LET m1 == [m EXCEPT !.nodes[x].color = m.nodes[h].color]
              IN Goto(addStepF(m1, "rotateRight", 6, hx, floatingX(m1, x)), "6")
         [] f.pc = "6" ->
              LET m1 == [m EXCEPT !.nodes[h].color = RED]
              IN Goto(addStepF(m1, "rotateRight", 7,
                               [h |-> Val(m, h), x |-> Val(m, x), result |-> Val(m, x)],
                               floatingX(m1, x)), "7")
         [] f.pc = "7" -> Return(popCall(m), x)

(* LLRBTree.colorFlip *)
colorFlipBody(m) ==
    LET f == Top(m)
        h == f.h
        l == m.nodes[h].left
        r == m.nodes[h].right
        hv == [h |-> Val(m, h)]
    IN CASE f.pc = "entry" ->
              Goto(addStep(pushCall(m, "colorFlip", hv), "colorFlip", 0, hv), "0")
         [] f.pc = "0" -> StepTo(m, "colorFlip", 2, hv, "2a")
         [] f.pc = "2a" ->
              StepTo([m EXCEPT !.nodes[h].color = ~@], "colorFlip", 2, hv, "2b")
         [] f.pc = "2b" -> StepTo(m, "colorFlip", 3, hv, "3a")
         [] f.pc = "3a" ->
              IF l = Null THEN Throw(m)
              ELSE StepTo([m EXCEPT !.nodes[l].color = ~@], "colorFlip", 3, hv, "3b")
         [] f.pc = "3b" -> StepTo(m, "colorFlip", 4, hv, "4a")
         [] f.pc = "4a" ->
              IF r = Null THEN Throw(m)
              ELSE StepTo([m EXCEPT !.nodes[r].color = ~@], "colorFlip", 4, hv, "4b")
         [] f.pc = "4b" -> Return(popCall(m), Undefined)

(* LLRBTree.moveRedLeft *)
moveRedLeftBody(m) ==
    LET f == Top(m)
        h == f.h
        r == m.nodes[h].right
        hv == [h |-> Val(m, h)]
    IN CASE f.pc = "entry" ->
              Goto(addStep(pushCall(m, "moveRedLeft", hv), "moveRedLeft", 0, hv), "0")
         [] f.pc = "0" -> StepTo(m, "moveRedLeft", 2, hv, "2")
         [] f.pc = "2" -> Invoke(m, "colorFlip", h, 0, "2r")
         [] f.pc = "2r" -> StepTo(m, "moveRedLeft", 3, hv, "3")
         [] f.pc = "3" ->
              IF r # Null /\ isRed(m.nodes, m.nodes[r].left)
              THEN StepTo(m, "moveRedLeft", 5, hv, "5")
              ELSE StepTo(m, "moveRedLeft", 9, hv, "9")
         [] f.pc = "5" -> Invoke(m, "rotateRight", r, 0, "5r")
         [] f.pc = "5r" ->
              StepTo([m EXCEPT !.nodes[h].right = m.ret], "moveRedLeft", 6, hv, "6")
         [] f.pc = "6" -> Invoke(m, "rotateLeft", h, 0, "6r")
         [] f.pc = "6r" ->
              StepTo(SetLocal(m, [f EXCEPT !.h = m.ret]), "moveRedLeft", 7,
                     [h |-> Val(m, m.ret)], "7")
         [] f.pc = "7" -> Invoke(m, "colorFlip", h, 0, "7r")
         [] f.pc = "7r" -> StepTo(m, "moveRedLeft", 9, hv, "9")
         [] f.pc = "9" -> Return(popCall(m), h)

(* LLRBTree.moveRedRight *)
moveRedRightBody(m) ==
    LET f == Top(m)
        h == f.h
        l == m.nodes[h].left
        hv == [h |-> Val(m, h)]
    IN CASE f.pc = "entry" ->
              Goto(addStep(pushCall(m, "moveRedRight", hv), "moveRedRight", 0, hv), "0")
         [] f.pc = "0" -> StepTo(m, "moveRedRight", 2, hv, "2")
         [] f.pc = "2" -> Invoke(m, "colorFlip", h, 0, "2r")
         [] f.pc = "2r" -> StepTo(m, "moveRedRight", 3, hv, "3")
         [] f.pc = "3" ->
              IF l # Null /\ isRed(m.nodes, m.nodes[l].left)
              THEN StepTo(m, "moveRedRight", 5, hv, "5")
              ELSE StepTo(m, "moveRedRight", 8, hv, "8")
         [] f.pc = "5" -> Invoke(m, "rotateRight", h, 0, "5r")
         [] f.pc = "5r" ->
              StepTo(SetLocal(m, [f EXCEPT !.h = m.ret]), "moveRedRight", 6,
                     [h |-> Val(m, m.ret)], "6")
         [] f.pc = "6" -> Invoke(m, "colorFlip", h, 0, "6r")
         [] f.pc = "6r" -> StepTo(m, "moveRedRight", 8, hv, "8")
         [] f.pc = "8" -> Return(popCall(m), h)

(* LLRBTree.fixUp *)
fixUpBody(m) ==
    LET f == Top(m)
        h == f.h
        l == m.nodes[h].left
        r == m.nodes[h].right
        hv == [h |-> Val(m, h)]
    IN CASE f.pc = "entry" ->
              Goto(addStep(pushCall(m, "fixUp", hv), "fixUp", 0, hv), "0")
         [] f.pc = "0" -> StepTo(m, "fixUp", 2, hv, "2")
         [] f.pc = "2" ->
              IF isRed(m.nodes, r)
              THEN Invoke(m, "rotateLeft", h, 0, "2r")
              ELSE StepTo(m, "fixUp", 4, hv, "4")
         [] f.pc = "2r" ->
              StepTo(SetLocal(m, [f EXCEPT !.h = m.ret]), "fixUp", 4,
                     [h |-> Val(m, m.ret)], "4")
         [] f.pc = "4" ->
              IF isRed(m.nodes, l) /\ l # Null /\ isRed(m.nodes, m.nodes[l].left)
              THEN StepTo(m, "fixUp", 5, hv, "5")
              ELSE StepTo(m, "fixUp", 7, hv, "7")
         [] f.pc = "5" -> Invoke(m, "rotateRight", h, 0, "5r")
         [] f.pc = "5r" ->
              StepTo(SetLocal(m, [f EXCEPT !.h = m.ret]), "fixUp", 7,
                     [h |-> Val(m, m.ret)], "7")
         [] f.pc = "7" ->
              IF bothRed(m.nodes, h)
              THEN StepTo(m, "fixUp", 8, hv, "8")
              ELSE StepTo(m, "fixUp", 10, hv, "10")
         [] f.pc = "8" -> Invoke(m, "colorFlip", h, 0, "8r")
         [] f.pc = "8r" -> StepTo(m, "fixUp", 10, hv, "10")
         [] f.pc = "10" -> Return(popCall(m), h)

(* LLRBTree.deleteMinRecursive *)
deleteMinRecursiveBody(m) ==
    LET f == Top(m)
        h == f.h
        l == m.nodes[h].left
        hv == [h |-> Val(m, h)]
    IN CASE f.pc = "entry" ->
              Goto(addStep(pushCall(m, "deleteMin", [h |-> OptVal(m, h)]),
                           "deleteMin", 0, [h |-> OptVal(m, h)]), "0")
         [] f.pc = "0" ->
              IF h = Null THEN Throw(m)
              ELSE StepTo(m, "deleteMin", 2,
                          [h |-> Val(m, h), leftNull |-> (l = Null)], "2")
         [] f.pc = "2" ->
              IF l = Null THEN Return(popCall(m), Null)
              ELSE StepTo(m, "deleteMin", 4, hv, "4")
         [] f.pc = "4" ->
              IF ~isRed(m.nodes, l) /\ ~isRed(m.nodes, m.nodes[l].left)
              THEN StepTo(m, "deleteMin", 5,
                          [h |-> Val(m, h), action |-> "moveRedLeft"], "5")
              ELSE StepTo(m, "deleteMin", 7, hv, "7")
         [] f.pc = "5" -> Invoke(m, "moveRedLeft", h, 0, "5r")
         [] f.pc = "5r" ->
              StepTo(SetLocal(m, [f EXCEPT !.h = m.ret]), "deleteMin", 7,
                     [h |-> Val(m, m.ret)], "7")
         [] f.pc = "7" -> Invoke(m, "deleteMin", l, 0, "7r")
         [] f.pc = "7r" ->
              StepTo(setLeft(m, h, m.ret), "deleteMin", 9, hv, "9")
         [] f.pc = "9" -> Invoke(m, "fixUp", h, 0, "9r")
         [] f.pc = "9r" -> Return(popCall(m), m.ret)

deletedLeafKept(h) == h

(* deleteRecursive, line 13: the node holding the key has no right child and
   null is returned in its place *)
deletedLeaf(h) == Null

(* LLRBTree.deleteRecursive *)
deleteRecursiveBody(m) ==
    LET f == Top(m)
        h == f.h
        key == f.key
        l == m.nodes[h].left
        r == m.nodes[h].right
        hv == [h |-> Val(m, h)]
        hk == [h |-> Val(m, h), key |-> key]
    IN CASE f.pc = "entry" ->
              LET m1 == pushCall(m, "delete", [h |-> OptVal(m, h), key |-> key])
              IN IF h = Null THEN Throw(m1)
                 ELSE Goto(addStep(m1, "delete", 0, hk), "0")
         [] f.pc = "0" -> StepTo(m, "delete", 2, hk, "2")
         [] f.pc = "2" ->
              IF key < Val(m, h)
              THEN StepTo(m, "delete", 4, hv, "4")
              ELSE StepTo(m, "delete", 10, hv, "10")
         [] f.pc = "4" ->
              IF ~isRed(m.nodes, l) /\ l # Null /\ ~isRed(m.nodes, m.nodes[l].left)
              THEN StepTo(m, "delete", 5, hv, "5")
              ELSE StepTo(m, "delete", 6, hv, "6")
         [] f.pc = "5" -> Invoke(m, "moveRedLeft", h, 0, "5r")
         [] f.pc = "5r" ->
              StepTo(SetLocal(m, [f EXCEPT !.h = m.ret]), "delete", 6,
                     [h |-> Val(m, m.ret)], "6")
         [] f.pc = "6" -> Invoke(m, "delete", l, key, "6r")
         [] f.pc = "6r" ->
              StepTo(setLeft(m, h, m.ret), "delete", 24, hv, "24")
         [] f.pc = "10" ->
              IF isRed(m.nodes, l)
              THEN StepTo(m, "delete", 11, hv, "11")
              ELSE StepTo(m, "delete", 12, hk, "12")
         [] f.pc = "11" -> Invoke(m, "rotateRight", h, 0, "11r")
         [] f.pc = "11r" ->
              StepTo(SetLocal(m, [f EXCEPT !.h = m.ret]), "delete", 12,
                     [h |-> Val(m, m.ret), key |-> key], "12")
         [] f.pc = "12" ->
              IF key = Val(m, h) /\ r = Null
              THEN StepTo(m, "delete", 13, hv, "13")
              ELSE StepTo(m, "delete", 14, hv, "14")
         [] f.pc = "13" -> Return(popCall(m), deletedLeaf(h))
         [] f.pc = "14" ->
              IF r # Null /\ ~isRed(m.nodes, r) /\ ~isRed(m.nodes, m.nodes[r].left)
              THEN StepTo(m, "delete", 15, hv, "15")
              ELSE StepTo(m, "delete", 16, hk, "16")
         [] f.pc = "15" -> Invoke(m, "moveRedRight", h, 0, "15r")
         [] f.pc = "15r" ->
              StepTo(SetLocal(m, [f EXCEPT !.h = m.ret]), "delete", 16,
                     [h |-> Val(m, m.ret), key |-> key], "16")
         [] f.pc = "16" ->
              IF key = Val(m, h)
              THEN IF r = Null THEN Throw(m)
                   ELSE LET mn == minNode(m.nodes, r)
                        IN StepTo(SetLocal(m, [f EXCEPT !.minNode = mn]), "delete", 18,
                                  [h |-> Val(m, h), minKey |-> Val(m, mn)], "18")
              ELSE StepTo(m, "delete", 22, hv, "22")
         [] f.pc = "18" ->
              LET m1 == replaceValue(m, h, f.minNode)
              IN StepTo(m1, "delete", 20, [h |-> Val(m1, h)], "20")
         [] f.pc = "20" -> Invoke(m, "deleteMin", r, 0, "20r")
         [] f.pc = "20r" ->
              StepTo([m EXCEPT !.nodes[h].right = m.ret], "delete", 24, hv, "24")
         [] f.pc = "22" -> Invoke(m, "delete", r, key, "22r")
         [] f.pc = "22r" ->
              StepTo([m EXCEPT !.nodes[h].right = m.ret], "delete", 24, hv, "24")
         [] f.pc = "24" -> Invoke(m, "fixUp", h, 0, "24r")
         [] f.pc = "24r" -> Return(popCall(m), m.ret)

----------------------------------------------------------------------------
(* The public operations.  Each runs in its own activation record, below   *)
(* those of the recursive calls it makes.                                  *)

(* the identity of a newly created array object *)
NewArray == CHOOSE i \in 1..3 : i \notin {stepsId, heldId}

resetInPlace(t) == [steps |-> <<>>, stepsId |-> t.stepsId, callStack |-> <<>>]

(* ExecutionTracer.reset: both fields are assigned new, empty arrays *)
reset(t) == [steps |-> <<>>, stepsId |-> NewArray, callStack |-> <<>>]

Tracer == [steps |-> steps, stepsId |-> stepsId, callStack |-> callStack]

(* The array object the caller still holds keeps its content when the
   tracer turns to another array object. *)
HeldAfter(t) ==
    IF t.stepsId # stepsId
    THEN (IF heldId = stepsId THEN steps ELSE heldOld)
    ELSE heldOld

AfterResetStale(t) == Cur

(* the machine right after tracer.reset() at the head of a public operation *)
AfterReset(t) == [Cur EXCEPT !.steps = t.steps, !.callStack = t.callStack]

(* the operations a caller may follow after a clear() *)
MaxOps == 2
Untracked == [tracked |-> FALSE, ops |-> <<>>, cleared |-> 0]

(* clear() called now: cleared is the number of nodes it drops *)
Cleared == [tracked |-> TRUE, ops |-> <<>>, cleared |-> countNodes(nodes, root)]

(* the operations called since the last clear(), with this one *)
Called(since, op, key) ==
    IF since.tracked /\ Len(since.ops) < MaxOps
    THEN [since EXCEPT !.ops = Append(@, [op |-> op, key |-> key])]
    ELSE Untracked

Commit(m) ==
    /\ nodes' = m.nodes
    /\ root' = m.root
    /\ steps' = m.steps
    /\ callStack' = m.callStack
    /\ stack' = m.stack
    /\ ret' = m.ret
    /\ fault' = m.fault
    /\ UNCHANGED <<heapVars, ctxVars, appVars>>

Idle == stack = <<>> /\ ~fault
Running(fn) == stack # <<>> /\ ~fault /\ stack[Len(stack)].fn = fn

Began(op, key) ==
    [op |-> op, key |-> key, tree |-> serializeNode(nodes, root), outcome |-> "running"]

(* Node objects in in-order sequence *)
RECURSIVE InOrderIds(_, _)
InOrderIds(nds, node) ==
    IF node = Null THEN <<>>
    ELSE InOrderIds(nds, nds[node].left) \o <<node>> \o InOrderIds(nds, nds[node].right)

Rank(seq, id) == IF id = Null THEN Null ELSE CHOOSE i \in 1..Len(seq) : seq[i] = id

(* Objects no longer referenced are garbage; the identity of the others is
   not observable (references are only compared with null) and is
   renamed to the in-order rank. *)
Collect(nds, rt) ==
    LET order == InOrderIds(nds, rt)
    IN [nodes |-> [i \in 1..Len(order) |->
                     [nds[order[i]] EXCEPT !.left = Rank(order, @),
                                           !.right = Rank(order, @)]],
        root |-> Rank(order, rt)]

(* return this.tracer.steps: the caller receives the tracer's array object *)
ReturnSteps(m, sid, h) ==
    /\ steps' = m.steps
    /\ stepsId' = sid
    /\ callStack' = m.callStack
    /\ stack' = <<>>
    /\ ret' = m.ret
    /\ fault' = m.fault
    /\ nodes' = Collect(m.nodes, m.root).nodes
    /\ root' = Collect(m.nodes, m.root).root
    /\ heldId' = sid
    /\ heldOld' = <<>>
    /\ hist' = h
    /\ UNCHANGED <<heapVars, ctxVars, appVars>>

(* the activation record of a public operation, after its first addStep *)
Entered(m, fn, key) ==
    [m EXCEPT !.stack = <<[Frame(m, fn, Null, key) EXCEPT !.pc = "1"]>>]

(* LLRBTree.insert after tracer.reset(), up to the first addStep *)
insertEntry(m, key) ==
    Entered(addStep(m, "insert", -1, [key |-> key]), "LLRBTree.insert", key)

(* LLRBTree.insert, up to the first addStep *)
Insert(key) ==
    /\ Idle
    /\ LET t == reset(Tracer)
       IN /\ Commit(insertEntry(AfterReset(t), key))
          /\ stepsId' = t.stepsId
          /\ heldOld' = HeldAfter(t)
    /\ hist' = Began("insert", key)
    /\ sinceClear' = Called(sinceClear, "insert", key)
    /\ UNCHANGED heldId

blackenRootSkipped(m) == m

(* this.root.color = BLACK *)
blackenRoot(m) == [m EXCEPT !.nodes[m.root].color = BLACK]

(* LLRBTree.insert, the rest *)
insertBody(m) ==
    LET f == Top(m)
    IN CASE f.pc = "1" -> Invoke(m, "insert", m.root, f.key, "1r")
         [] f.pc = "1r" -> Goto(assignRoot(m), "2")
         [] f.pc = "2" ->
              IF m.root = Null THEN Throw(m)
              ELSE StepTo(blackenRoot(m), "insert", -1,
                          [key |-> f.key, result |-> "complete"], "ret")

InsertReturns ==
    /\ Running("LLRBTree.insert")
    /\ UNCHANGED sinceClear
    /\ IF stack[Len(stack)].pc = "ret"
       THEN ReturnSteps(Cur, stepsId, [hist EXCEPT !.outcome = "complete"])
       ELSE Commit(insertBody(Cur)) /\ UNCHANGED <<stepsId, heldId, heldOld, hist>>

rootIsNullNever == FALSE

(* this.root === null: the test at the head of deleteMin and delete *)
rootIsNull == root = Null

(* deleteMin and delete on an empty tree: the only step *)
emptyTreeStep(m, funcName) == addStep(m, funcName, -1, [error |-> "empty tree"])

(* delete of a key that is not in the tree: the only step *)
keyNotFoundStep(m, key) ==
    addStep(m, "delete", -1, [error |-> "key not found", key |-> key])

(* LLRBTree.deleteMin after the test of the root, up to the first addStep *)
deleteMinEntry(m) ==
    Entered(addStep(m, "deleteMin", -1, EmptyVars), "LLRBTree.deleteMin", 0)

(* LLRBTree.delete after the tests of the root and the key, up to the first
   addStep *)
deleteEntry(m, key) ==
    Entered(addStep(m, "delete", -1, [key |-> key]), "LLRBTree.delete", key)

(* LLRBTree.deleteMin, up to the first addStep *)
DeleteMin ==
    /\ Idle
    /\ sinceClear' = Called(sinceClear, "deleteMin", 0)
    /\ LET t == reset(Tracer)
           m0 == AfterReset(t)
       IN IF rootIsNull
          THEN ReturnSteps(emptyTreeStep(m0, "deleteMin"),
                           t.stepsId,
                           [Began("deleteMin", 0) EXCEPT !.outcome = "empty tree"])
          ELSE    /\ stepsId' = t.stepsId
                  /\ Commit(deleteMinEntry(m0))
                  /\ heldOld' = HeldAfter(t)
                  /\ hist' = Began("deleteMin", 0)
                  /\ UNCHANGED heldId

(* deleteMin and delete: if both children of the root are black, the root is
   made red *)
rootRedBody(m) ==
    IF ~isRed(m.nodes, m.nodes[m.root].left) /\ ~isRed(m.nodes, m.nodes[m.root].right)
    THEN [m EXCEPT !.nodes[m.root].color = RED]
    ELSE m

(* LLRBTree.deleteMin, the rest *)
deleteMinBody(m) ==
    LET f == Top(m)
    IN CASE f.pc = "1" -> Goto(rootRedBody(m), "2")
         [] f.pc = "2" -> Invoke(m, "deleteMin", m.root, 0, "2r")
         [] f.pc = "2r" -> Goto(assignRoot(m), "3")
         [] f.pc = "3" ->
              StepTo(IF m.root # Null THEN blackenRoot(m) ELSE m,
                     "deleteMin", -1, [result |-> "complete"], "ret")

DeleteMinReturns ==
    /\ Running("LLRBTree.deleteMin")
    /\ UNCHANGED sinceClear
    /\ IF stack[Len(stack)].pc = "ret"
       THEN ReturnSteps(Cur, stepsId, [hist EXCEPT !.outcome = "complete"])
       ELSE Commit(deleteMinBody(Cur)) /\ UNCHANGED <<stepsId, heldId, heldOld, hist>>

(* LLRBTree.delete, up to the first addStep *)
Delete(key) ==
    /\ Idle
    /\ sinceClear' = Called(sinceClear, "delete", key)
    /\ LET t == reset(Tracer)
           m0 == AfterReset(t)
       IN IF rootIsNull
          THEN ReturnSteps(emptyTreeStep(m0, "delete"),
                           t.stepsId,
                           [Began("delete", key) EXCEPT !.outcome = "empty tree"])
          ELSE IF ~contains(key)
          THEN ReturnSteps(keyNotFoundStep(m0, key),
                           t.stepsId,
                           [Began("delete", key) EXCEPT !.outcome = "key not found"])
          ELSE    /\ stepsId' = t.stepsId
                  /\ Commit(deleteEntry(m0, key))
                  /\ heldOld' = HeldAfter(t)
                  /\ hist' = Began("delete", key)
                  /\ UNCHANGED heldId

(* LLRBTree.delete, the rest *)
deleteBody(m) ==
    LET f == Top(m)
    IN CASE f.pc = "1" -> Goto(rootRedBody(m), "2")
         [] f.pc = "2" -> Invoke(m, "delete", m.root, f.key, "2r")
         [] f.pc = "2r" -> Goto(assignRoot(m), "3")
         [] f.pc = "3" ->
              StepTo(IF m.root # Null THEN blackenRoot(m) ELSE m,
                     "delete", -1, [key |-> f.key, result |-> "complete"], "ret")

DeleteReturns ==
    /\ Running("LLRBTree.delete")
    /\ UNCHANGED sinceClear
    /\ IF stack[Len(stack)].pc = "ret"
       THEN ReturnSteps(Cur, stepsId, [hist EXCEPT !.outcome = "complete"])
       ELSE Commit(deleteBody(Cur)) /\ UNCHANGED <<stepsId, heldId, heldOld, hist>>

ClearTracerOnly ==
    /\ Idle
    /\ LET t == reset(Tracer)
       IN /\ steps' = t.steps
          /\ stepsId' = t.stepsId
          /\ callStack' = t.callStack
          /\ heldOld' = HeldAfter(t)
    /\ hist' = [Began("clear", 0) EXCEPT !.outcome = "complete"]
    /\ sinceClear' = Cleared
    /\ UNCHANGED <<root, nodes, stack, ret, fault, heldId>>
    /\ UNCHANGED <<heapVars, ctxVars, appVars>>

(* LLRBTree.clear *)
Clear ==
    /\ Idle
    /\ LET t == reset(Tracer)
       IN /\ steps' = t.steps
          /\ stepsId' = t.stepsId
          /\ callStack' = t.callStack
          /\ heldOld' = HeldAfter(t)
    /\ root' = Null
    /\ nodes' = <<>>
    /\ hist' = [Began("clear", 0) EXCEPT !.outcome = "complete"]
    /\ sinceClear' = Cleared
    /\ UNCHANGED <<stack, ret, fault, heldId>>
    /\ UNCHANGED <<heapVars, ctxVars, appVars>>

searchLogged(m) == [m EXCEPT !.steps = <<>>, !.callStack = <<>>]

(* LLRBTree.search, countNodes and height read node.value, node.left and
   node.right and call nothing of the tracer: the tree object is as before *)
searchOnly(m) == m

(* LLRBTree.contains *)
Contains(value) ==
    /\ Idle
    /\ Commit(searchOnly(Cur))
    /\ hist' = [Began("contains", value) EXCEPT
                    !.outcome = IF contains(value) THEN "true" ELSE "false"]
    /\ UNCHANGED <<stepsId, heldId, heldOld, sinceClear>>

(* LLRBTree.getStats *)
GetStats ==
    /\ Idle
    /\ Commit(searchOnly(Cur))
    /\ hist' = [Began("getStats", getStats.nodeCount) EXCEPT !.outcome = "returned"]
    /\ UNCHANGED <<stepsId, heldId, heldOld, sinceClear>>

(* one transition of the innermost active call *)
Run(next) == Commit(next) /\ UNCHANGED <<stepsId, heldId, heldOld, hist, sinceClear>>

InsertRecursive ==
    /\ Running("insert")
    /\ Run(insertRecursiveBody(Cur))
DeleteMinRecursive ==
    /\ Running("deleteMin")
    /\ Run(deleteMinRecursiveBody(Cur))
DeleteRecursive ==
    /\ Running("delete")
    /\ Run(deleteRecursiveBody(Cur))
RotateLeft ==
    /\ Running("rotateLeft")
    /\ Run(rotateLeftBody(Cur))
RotateRight ==
    /\ Running("rotateRight")
    /\ Run(rotateRightBody(Cur))
ColorFlip ==
    /\ Running("colorFlip")
    /\ Run(colorFlipBody(Cur))
MoveRedLeft ==
    /\ Running("moveRedLeft")
    /\ Run(moveRedLeftBody(Cur))
MoveRedRight ==
    /\ Running("moveRedRight")
    /\ Run(moveRedRightBody(Cur))
FixUp ==
    /\ Running("fixUp")
    /\ Run(fixUpBody(Cur))

(* new Heap() *)
InitHeap ==
    /\ hNodes = <<>>
    /\ hNextId = 1
    /\ hObjs = <<>>
    /\ callerRec = 0
    /\ hCall = [op |-> "none", id |-> 0, value |-> 0, color |-> ""]
    /\ hIssued = {}

(* new ExecutionContext() *)
InitContext ==
    /\ ctxStack = <<>>
    /\ ctxCall = [op |-> "none", name |-> "", result |-> Null, popped |-> <<>>]

(* new PseudocodeDisplay(), new LLRBApp() *)
InitApp ==
    /\ pdSteps = <<>>
    /\ currentStepIndex = 0
    /\ isPlaying = FALSE
    /\ playInterval = 0
    /\ appCall = [op |-> "none", result |-> FALSE]
    /\ quiet = FALSE

(* new LLRBTree() *)
InitTree ==
    /\ nodes = <<>>
    /\ root = Null
    /\ steps = <<>>
    /\ stepsId = 1
    /\ callStack = <<>>
    /\ stack = <<>>
    /\ ret = Undefined
    /\ fault = FALSE
    /\ heldId = 0
    /\ heldOld = <<>>
    /\ hist = [op |-> "none", key |-> 0, tree |-> NullTree, outcome |-> "complete"]
    /\ sinceClear = Untracked

(* every object constructed *)
Init ==
    /\ InitTree
    /\ InitHeap
    /\ InitContext
    /\ InitApp
    /\ playDisabled = TRUE

Next ==
    \/ \E key \in Keys : Insert(key)
    \/ InsertReturns
    \/ DeleteMin
    \/ DeleteMinReturns
    \/ \E key \in Keys : Delete(key)
    \/ DeleteReturns
    \/ Clear
    \/ \E key \in Keys : Contains(key)
    \/ GetStats
    \/ InsertRecursive
    \/ DeleteMinRecursive
    \/ DeleteRecursive
    \/ RotateLeft
    \/ RotateRight
    \/ ColorFlip
    \/ MoveRedLeft
    \/ MoveRedRight
    \/ FixUp

Spec == Init /\ [][Next]_vars

(* the steps of a call that is active *)
RunningNext ==
    \/ InsertReturns
    \/ DeleteMinReturns
    \/ DeleteReturns
    \/ InsertRecursive
    \/ DeleteMinRecursive
    \/ DeleteRecursive
    \/ RotateLeft
    \/ RotateRight
    \/ ColorFlip
    \/ MoveRedLeft
    \/ MoveRedRight
    \/ FixUp

(* JavaScript runs a call to completion: the active call takes its next step *)
RunSpec == Spec /\ WF_vars(RunningNext)

----------------------------------------------------------------------------
(* Properties of the tree between operations *)

Range(seq) == {seq[i] : i \in 1..Len(seq)}
StrictlyIncreasing(seq) == \A i \in 1..(Len(seq) - 1) : seq[i] < seq[i + 1]

(* the node objects reachable from a node *)
Reach(nds, node) == Range(InOrderIds(nds, node))

(* the values, and the number of nodes, of a serialized tree *)
RECURSIVE TreeVals(_)
TreeVals(t) ==
    IF t = NullTree THEN <<>> ELSE TreeVals(t.left) \o <<t.value>> \o TreeVals(t.right)
TreeKeys(t) == Range(TreeVals(t))
TreeCount(t) == Len(TreeVals(t))

(* the set of black-node counts over the paths from a node to a null link *)
RECURSIVE BlackHeights(_, _)
BlackHeights(nds, node) ==
    IF node = Null THEN {0}
    ELSE {n + (IF nds[node].color = BLACK THEN 1 ELSE 0) :
            n \in BlackHeights(nds, nds[node].left) \cup BlackHeights(nds, nds[node].right)}

(* a public operation has returned and none is running *)
Returned == stack = <<>>
Completed(op) == Returned /\ hist.op = op /\ hist.outcome = "complete"

(* C1: when every call has returned, no node reachable from the root has a
   red right child. *)
C1_RedLinksLeanLeft ==
    Returned => \A n \in Reach(nodes, root) : ~isRed(nodes, nodes[n].right)

(* C1 witness: a delete has returned and left a tree with a red left link *)
C1_Witness ==
    /\ Completed("delete")
    /\ \E n \in Reach(nodes, root) : isRed(nodes, nodes[n].left)

(* C2: when every call has returned, no node reachable from the root has two
   red children and no red node has a red child. *)
C2_NoTwoRedLinks ==
    Returned =>
        \A n \in Reach(nodes, root) :
            /\ ~(isRed(nodes, nodes[n].left) /\ isRed(nodes, nodes[n].right))
            /\ isRed(nodes, n) =>
                 ~isRed(nodes, nodes[n].left) /\ ~isRed(nodes, nodes[n].right)

(* C2 witness: an insert has returned in which a red node got a red left
   child (repaired by rotateRight) and then a node had two red children
   (split by colorFlip) *)
C2_Witness ==
    /\ Completed("insert")
    /\ \E i \in 1..Len(steps) : steps[i].funcName = "rotateRight"
    /\ \E i \in 1..Len(steps) : steps[i].funcName = "colorFlip"
    /\ countNodes(nodes, root) >= 3

(* C3: when every call has returned, every path from the root to a null link
   passes through the same number of black nodes. *)
C3_BlackBalance == Returned => Cardinality(BlackHeights(nodes, root)) = 1

(* C3 witness: a deleteMin has returned leaving a tree of black height 2 *)
C3_Witness == Completed("deleteMin") /\ BlackHeights(nodes, root) = {2}

(* C4: when every call has returned the in-order traversal from the root is
   strictly increasing; and when rotateLeft / rotateRight is about to return
   x, the in-order values of x's subtree are those of the subtree it was
   given. *)
C4_SearchTreeOrder ==
    /\ Returned => StrictlyIncreasing(InOrderVals(nodes, root))
    /\ \A i \in 1..Len(stack) :
          stack[i].fn \in {"rotateLeft", "rotateRight"} /\ stack[i].pc = "7"
              => InOrderVals(nodes, stack[i].x) = stack[i].keys0

(* C4 witness: a rotateLeft of a subtree of three or more nodes is about to
   return *)
C4_Witness ==
    /\ stack # <<>>
    /\ stack[Len(stack)].fn = "rotateLeft"
    /\ stack[Len(stack)].pc = "7"
    /\ Len(stack[Len(stack)].keys0) >= 3

(* C5: after insert(k) has returned, the keys reachable from the root are the
   previous keys plus k, contains(k) is true, and nodeCount grew by one if k
   was absent and is unchanged if k was present. *)
C5_InsertAddsKey ==
    Completed("insert") =>
        /\ Range(InOrderVals(nodes, root)) = TreeKeys(hist.tree) \cup {hist.key}
        /\ contains(hist.key)
        /\ getStats.nodeCount =
              TreeCount(hist.tree) + (IF hist.key \in TreeKeys(hist.tree) THEN 0 ELSE 1)

(* C5 witness: an insert of an absent key into a tree of three or more nodes
   has returned *)
C5_Witness ==
    /\ Completed("insert")
    /\ TreeCount(hist.tree) >= 3
    /\ hist.key \notin TreeKeys(hist.tree)

(* C6: after delete(k) of a present key has returned, the keys reachable from
   the root are the previous keys minus k, none lost or duplicated, and
   contains(k) is false. *)
C6_DeleteRemovesKey ==
    Completed("delete") =>
        /\ Range(InOrderVals(nodes, root)) = TreeKeys(hist.tree) \ {hist.key}
        /\ getStats.nodeCount = TreeCount(hist.tree) - 1
        /\ ~contains(hist.key)

(* C6 witness: a delete has returned that replaced the key by the minimum of
   its right subtree *)
C6_Witness ==
    /\ Completed("delete")
    /\ \E i \in 1..Len(steps) : steps[i].funcName = "delete" /\ steps[i].lineNumber = 18

(* the smallest element of a non-empty set of numbers *)
Least(S) == CHOOSE a \in S : \A b \in S : a <= b

(* C7: after deleteMin() on a non-empty tree has returned, the keys reachable
   from the root are the previous keys minus the smallest. *)
C7_DeleteMinRemovesSmallest ==
    Completed("deleteMin") =>
        /\ Range(InOrderVals(nodes, root)) =
              TreeKeys(hist.tree) \ {Least(TreeKeys(hist.tree))}
        /\ getStats.nodeCount = TreeCount(hist.tree) - 1

(* C7 witness: a deleteMin that called moveRedLeft has returned *)
C7_Witness ==
    /\ Completed("deleteMin")
    /\ TreeCount(hist.tree) >= 3
    /\ \E i \in 1..Len(steps) : steps[i].funcName = "moveRedLeft"

----------------------------------------------------------------------------
(* The reference algorithms (ALGORITHMS of js/algorithms.js), uninstrumented,
   on tree values [value, color, left, right] *)

RefIsRed(t) == IF t = NullTree THEN FALSE ELSE t.color = "red"
RefNot(c) == IF c = "red" THEN "black" ELSE "red"

(* ALGORITHMS.rotateLeft *)
RefRotateLeft(h) ==
    LET x == h.right
    IN [x EXCEPT !.left = [h EXCEPT !.right = x.left, !.color = "red"],
                 !.color = h.color]

(* ALGORITHMS.rotateRight *)
RefRotateRight(h) ==
    LET x == h.left
    IN [x EXCEPT !.right = [h EXCEPT !.left = x.right, !.color = "red"],
                 !.color = h.color]

(* ALGORITHMS.colorFlip *)
RefColorFlip(h) ==
    [h EXCEPT !.color = RefNot(@),
              !.left = [@ EXCEPT !.color = RefNot(@)],
              !.right = [@ EXCEPT !.color = RefNot(@)]]

(* ALGORITHMS.insert: the three checks before return h *)
RefBalance(h) ==
    LET h1 == IF RefIsRed(h.right) /\ ~RefIsRed(h.left) THEN RefRotateLeft(h) ELSE h
        h2 == IF RefIsRed(h1.left) /\ RefIsRed(h1.left.left) THEN RefRotateRight(h1) ELSE h1
    IN IF RefIsRed(h2.left) /\ RefIsRed(h2.right) THEN RefColorFlip(h2) ELSE h2

(* ALGORITHMS.insert *)
RECURSIVE RefInsert(_, _)
RefInsert(h, key) ==
    IF h = NullTree
    THEN [value |-> key, color |-> "red", left |-> NullTree, right |-> NullTree]
    ELSE RefBalance(IF key < h.value THEN [h EXCEPT !.left = RefInsert(h.left, key)]
                    ELSE IF key > h.value THEN [h EXCEPT !.right = RefInsert(h.right, key)]
                    ELSE h)

(* ALGORITHMS.fixUp *)
RefFixUp(h) ==
    LET h1 == IF RefIsRed(h.right) THEN RefRotateLeft(h) ELSE h
        h2 == IF RefIsRed(h1.left) /\ RefIsRed(h1.left.left) THEN RefRotateRight(h1) ELSE h1
    IN IF RefIsRed(h2.left) /\ RefIsRed(h2.right) THEN RefColorFlip(h2) ELSE h2

(* ALGORITHMS.moveRedLeft *)
RefMoveRedLeft(h) ==
    LET h1 == RefColorFlip(h)
    IN IF RefIsRed(h1.right.left)
       THEN RefColorFlip(RefRotateLeft([h1 EXCEPT !.right = RefRotateRight(h1.right)]))
       ELSE h1

(* ALGORITHMS.moveRedRight *)
RefMoveRedRight(h) ==
    LET h1 == RefColorFlip(h)
    IN IF RefIsRed(h1.left.left) THEN RefColorFlip(RefRotateRight(h1)) ELSE h1

(* ALGORITHMS.deleteMin *)
RECURSIVE RefDeleteMin(_)
RefDeleteMin(h) ==
    IF h.left = NullTree THEN NullTree
    ELSE LET h1 == IF ~RefIsRed(h.left) /\ ~RefIsRed(h.left.left)
                   THEN RefMoveRedLeft(h) ELSE h
         IN RefFixUp([h1 EXCEPT !.left = RefDeleteMin(h1.left)])

(* min(h.right).key of ALGORITHMS.delete *)
RECURSIVE RefMin(_)
RefMin(h) == IF h.left = NullTree THEN h.value ELSE RefMin(h.left)

(* ALGORITHMS.delete *)
RECURSIVE RefDelete(_, _)
RefDelete(h, key) ==
    IF key < h.value
    THEN LET h1 == IF ~RefIsRed(h.left) /\ ~RefIsRed(h.left.left)
                   THEN RefMoveRedLeft(h) ELSE h
         IN RefFixUp([h1 EXCEPT !.left = RefDelete(h1.left, key)])
    ELSE LET h1 == IF RefIsRed(h.left) THEN RefRotateRight(h) ELSE h
         IN IF key = h1.value /\ h1.right = NullTree THEN NullTree
            ELSE LET h2 == IF ~RefIsRed(h1.right) /\ ~RefIsRed(h1.right.left)
                           THEN RefMoveRedRight(h1) ELSE h1
                 IN RefFixUp(IF key = h2.value
                             THEN [h2 EXCEPT !.value = RefMin(h2.right),
                                             !.right = RefDeleteMin(h2.right)]
                             ELSE [h2 EXCEPT !.right = RefDelete(h2.right, key)])

(* The public operations around the reference algorithms: the root is made
   red before a deletion when both its children are black, and black after
   every operation; deleting from an empty tree or deleting an absent key
   leaves the tree as it is. *)
RefBlacken(t) == IF t = NullTree THEN t ELSE [t EXCEPT !.color = "black"]
RefRedden(t) ==
    IF ~RefIsRed(t.left) /\ ~RefIsRed(t.right) THEN [t EXCEPT !.color = "red"] ELSE t
RefOperation(op, t, key) ==
    CASE op = "insert" -> RefBlacken(RefInsert(t, key))
      [] op = "deleteMin" ->
            IF t = NullTree THEN t ELSE RefBlacken(RefDeleteMin(RefRedden(t)))
      [] op = "delete" ->
            IF t = NullTree \/ key \notin TreeKeys(t) THEN t
            ELSE RefBlacken(RefDelete(RefRedden(t), key))

(* C8: for every insert, delete and deleteMin, the tree captured in the last
   step of the returned trace is identical in values, colors and shape to the
   result of the reference implementation on the same starting tree and
   argument. *)
C8_LastStepMatchesReference ==
    Returned /\ hist.op \in {"insert", "delete", "deleteMin"} =>
        steps[Len(steps)].treeState = RefOperation(hist.op, hist.tree, hist.key)

(* C8 witness: a delete that called moveRedRight and fixUp on a tree of four
   or more nodes has returned *)
C8_Witness ==
    /\ Completed("delete")
    /\ TreeCount(hist.tree) >= 4
    /\ \E i \in 1..Len(steps) : steps[i].funcName = "moveRedRight"
    /\ \E i \in 1..Len(steps) : steps[i].funcName = "fixUp"

----------------------------------------------------------------------------
(* What a step shows, and what is live when it is captured *)

(* [value, color, left value, right value] of every node of a serialized tree *)
RECURSIVE Shown(_)
Shown(t) ==
    IF t = NullTree THEN {}
    ELSE {[value |-> t.value, color |-> t.color,
           left |-> IF t.left = NullTree THEN Null ELSE t.left.value,
           right |-> IF t.right = NullTree THEN Null ELSE t.right.value]}
         \cup Shown(t.left) \cup Shown(t.right)

(* the nodes a step shows: its tree and its floating subtrees *)
ShownByStep(s) ==
    Shown(s.treeState) \cup
    UNION {Shown(s.floatingNodes[i].tree) : i \in 1..Len(s.floatingNodes)}

(* a live node as a step would show it *)
View(nds, n) ==
    [value |-> nds[n].value, color |-> IF nds[n].color THEN "red" ELSE "black",
     left |-> IF nds[n].left = Null THEN Null ELSE nds[nds[n].left].value,
     right |-> IF nds[n].right = Null THEN Null ELSE nds[nds[n].right].value]

(* the nodes reachable from the root or from a local variable of a call
   still active *)
Live ==
    Reach(nodes, root) \cup
    UNION {Reach(nodes, stack[i].h) \cup Reach(nodes, stack[i].x)
           \cup Reach(nodes, stack[i].newNode) \cup Reach(nodes, stack[i].minNode)
           : i \in 1..Len(stack)}

LastStepShowsLive ==
    \A n \in Live : View(nodes, n) \in ShownByStep(steps[Len(steps)])

StepCaptured == stepsId' = stepsId /\ Len(steps') = Len(steps) + 1

(* C9: in every step captured during an operation, every node that is live at
   that instant (reachable from the root or from a local variable of a call
   still active) is present in the step with its current value, color and
   children. *)
C9_StepShowsEveryLiveNode == [][StepCaptured => LastStepShowsLive']_vars

----------------------------------------------------------------------------
(* The step arrays *)

(* the content of the array object the caller holds *)
HeldContent == IF heldId = stepsId THEN steps ELSE heldOld

IsPrefix(a, b) == Len(a) <= Len(b) /\ SubSeq(b, 1, Len(a)) = a

(* C10: a captured step is never altered after it is appended: while the
   tracer keeps its array object the steps in it stay as they are and steps
   are only appended, and the array a caller holds keeps its content through
   later steps, later operations and clear(). *)
C10_StepsNeverAltered ==
    [][/\ stepsId' = stepsId => IsPrefix(steps, steps')
       /\ heldId # 0 /\ heldId' = heldId => HeldContent' = HeldContent]_vars

(* C10 witness: an operation is adding steps while the caller holds the trace
   of the operation before it *)
C10_Witness ==
    /\ stack # <<>>
    /\ heldId # 0
    /\ heldId # stepsId
    /\ Len(heldOld) > 1
    /\ Len(steps) > 1

----------------------------------------------------------------------------
(* The rotation scenario: inserts of the keys 1, 2, 5 and 6 into a new tree *)

ScenarioKeys == {1, 2, 5, 6}

ScenarioNext ==
    \/ \E key \in ScenarioKeys : Insert(key)
    \/ InsertReturns
    \/ InsertRecursive
    \/ RotateLeft
    \/ RotateRight
    \/ ColorFlip

ScenarioSpec == Init /\ [][ScenarioNext]_vars

Leaf(value, color) ==
    [value |-> value, color |-> color, left |-> NullTree, right |-> NullTree]

(* root 2 (black), left child 1 (black), right child 5 (black) *)
ScenarioTree ==
    [value |-> 2, color |-> "black",
     left |-> Leaf(1, "black"), right |-> Leaf(5, "black")]

(* the node holding v is in the tree the step captured from the root *)
InStepTree(s, v) == v \in TreeKeys(s.treeState)

(* the node holding v is in the step only as the subtree of local variable x
   of the call that captured it *)
OnlyViaLocal(s, v) ==
    /\ ~InStepTree(s, v)
    /\ s.callStack # <<>>
    /\ s.callStack[Len(s.callStack)].funcName = s.funcName
    /\ \E i \in 1..Len(s.floatingNodes) :
          /\ s.floatingNodes[i].label = "x"
          /\ v \in TreeKeys(s.floatingNodes[i].tree)

ScenarioInsertReturned ==
    Completed("insert") /\ hist.key = 6 /\ hist.tree = ScenarioTree

(* C11: the trace returned by insert(6) on the tree 2 (black) with children
   1 (black) and 5 (black) has a step in which the node holding 6 is present
   only through a local variable of the active call and not reachable from
   the root, and a later step in which it is reachable from the root. *)
C11_RotationVisible ==
    ScenarioInsertReturned =>
        \E i \in 1..Len(steps) : \E j \in (i + 1)..Len(steps) :
            OnlyViaLocal(steps[i], 6) /\ InStepTree(steps[j], 6)

(* C11 witness: that insert(6) has returned, its trace has rotateLeft steps,
   and 6 is the right child of the root with 5 as its red left child *)
C11_Witness ==
    /\ ScenarioInsertReturned
    /\ \E i \in 1..Len(steps) : steps[i].funcName = "rotateLeft"
    /\ serializeNode(nodes, root) =
          [value |-> 2, color |-> "black", left |-> Leaf(1, "black"),
           right |-> [value |-> 6, color |-> "black",
                      left |-> Leaf(5, "red"), right |-> NullTree]]

----------------------------------------------------------------------------
(* The conditions delete and deleteMin report *)

(* a public operation is being called: no call is active, and the step taken
   is the entry of the operation *)
Calls(op) == Idle /\ hist'.op = op

(* the tree as an observer sees it: values, colors and shape *)
TreeNow == serializeNode(nodes, root)

(* C12: delete(k) of a key not in a non-empty tree returns a step array of
   exactly one step, which carries the key-not-found condition, and leaves
   the root, every node's value, color and children, and the call stack as
   they were before the call. *)
C12_DeleteAbsentKey ==
    [][Calls("delete") /\ root # Null /\ hist'.key \notin TreeKeys(TreeNow) =>
          /\ stack' = <<>>
          /\ heldId' = stepsId'
          /\ Len(steps') = 1
          /\ steps'[1].funcName = "delete"
          /\ steps'[1].variables = [error |-> "key not found", key |-> hist'.key]
          /\ root' = root
          /\ nodes' = nodes
          /\ callStack' = callStack
          /\ fault' = fault]_vars

(* C12 witness: delete of an absent key has returned on a tree of two or more
   nodes *)
C12_Witness ==
    /\ Returned
    /\ hist.op = "delete"
    /\ hist.outcome = "key not found"
    /\ TreeCount(hist.tree) >= 2
    /\ hist.key \notin TreeKeys(TreeNow)
    /\ Len(steps) = 1

(* C13: on an empty tree, deleteMin() and delete(k) each return a trace of
   exactly one step, which carries the empty-tree condition (for delete too,
   not key-not-found), raise no fault and leave the tree empty. *)
C13_EmptyTreeCondition ==
    [][(Calls("deleteMin") \/ Calls("delete")) /\ root = Null =>
          /\ stack' = <<>>
          /\ heldId' = stepsId'
          /\ Len(steps') = 1
          /\ steps'[1].funcName = hist'.op
          /\ steps'[1].variables = [error |-> "empty tree"]
          /\ steps'[1].treeState = NullTree
          /\ root' = Null
          /\ nodes' = <<>>
          /\ ~fault']_vars

(* C13 witness: delete(k) has returned on a tree emptied by earlier
   operations *)
C13_Witness ==
    /\ Returned
    /\ hist.op = "delete"
    /\ hist.key \in Keys
    /\ hist.outcome = "empty tree"
    /\ hist.tree = NullTree
    /\ root = Null
    /\ Len(steps) = 1

----------------------------------------------------------------------------
(* Inserting a key that is present *)

(* C14: insert(k) of a key already in the tree leaves the tree reachable from
   the root as it was: same keys, same shape, same color of every node; so a
   second insert(k) right after insert(k) changes nothing. *)
C14_DuplicateInsertNoOp ==
    Completed("insert") /\ hist.key \in TreeKeys(hist.tree) => TreeNow = hist.tree

(* C14 witness: insert of a present key has returned on a tree of three or
   more nodes that has a red node *)
C14_Witness ==
    /\ Completed("insert")
    /\ hist.key \in TreeKeys(hist.tree)
    /\ TreeCount(hist.tree) >= 3
    /\ \E n \in Reach(nodes, root) : isRed(nodes, n)
    /\ \E i \in 1..Len(steps) : steps[i].funcName = "insert" /\ steps[i].lineNumber = 7

----------------------------------------------------------------------------
(* A second execution of an operation, on a tree of new objects *)

(* the identity of the root of serialized tree t when its nodes are numbered
   in in-order sequence from base + 1 *)
RootOf(t, base) == IF t = NullTree THEN Null ELSE base + TreeCount(t.left) + 1

(* the Node objects of serialized tree t, in in-order sequence *)
RECURSIVE NodesOf(_, _)
NodesOf(t, base) ==
    IF t = NullTree THEN <<>>
    ELSE LET me == RootOf(t, base)
         IN NodesOf(t.left, base)
            \o <<[value |-> t.value,
                  color |-> IF t.color = "red" THEN RED ELSE BLACK,
                  left |-> RootOf(t.left, base),
                  right |-> RootOf(t.right, me)]>>
            \o NodesOf(t.right, me)

(* a tree object holding t, with a tracer that has recorded nothing *)
Fresh(t) ==
    [nodes |-> NodesOf(t, 0), root |-> RootOf(t, 0), steps |-> <<>>,
     callStack |-> <<>>, stack |-> <<>>, ret |-> Undefined, fault |-> FALSE]

(* the head of a public operation, after tracer.reset() *)
Enter(op, m, key) ==
    CASE op = "insert" -> insertEntry(m, key)
      [] op = "deleteMin" ->
            IF m.root = Null THEN emptyTreeStep(m, "deleteMin") ELSE deleteMinEntry(m)
      [] op = "delete" ->
            IF m.root = Null THEN emptyTreeStep(m, "delete")
            ELSE IF search(m.nodes, m.root, key) = Null THEN keyNotFoundStep(m, key)
            ELSE deleteEntry(m, key)

(* one transition of the innermost active call *)
Step(m) ==
    LET fn == Top(m).fn
    IN CASE fn = "LLRBTree.insert" -> insertBody(m)
         [] fn = "LLRBTree.deleteMin" -> deleteMinBody(m)
         [] fn = "LLRBTree.delete" -> deleteBody(m)
         [] fn = "insert" -> insertRecursiveBody(m)
         [] fn = "deleteMin" -> deleteMinRecursiveBody(m)
         [] fn = "delete" -> deleteRecursiveBody(m)
         [] fn = "rotateLeft" -> rotateLeftBody(m)
         [] fn = "rotateRight" -> rotateRightBody(m)
         [] fn = "colorFlip" -> colorFlipBody(m)
         [] fn = "moveRedLeft" -> moveRedLeftBody(m)
         [] fn = "moveRedRight" -> moveRedRightBody(m)
         [] fn = "fixUp" -> fixUpBody(m)

(* the operation run until it returns its steps (or raises a fault) *)
RECURSIVE RunToEnd(_)
RunToEnd(m) ==
    IF m.fault \/ m.stack = <<>> \/ Top(m).pc = "ret" THEN m ELSE RunToEnd(Step(m))

(* the step array of op(key) executed on a new tree object holding t *)
Again(op, t, key) == RunToEnd(Enter(op, Fresh(t), key)).steps

(* the (function name, step marker) pairs of a step array, in order *)
Sig(seq) == [i \in 1..Len(seq) |-> <<seq[i].funcName, seq[i].lineNumber>>]

Operations == {"insert", "deleteMin", "delete"}

(* C15: two executions of the same operation with the same argument from
   identical starting trees produce step arrays of equal length with the same
   sequence of (function name, step marker) pairs: the trace an operation
   returns, whatever operations came before it on this tree object, has the
   pairs of the trace of the same operation on a new tree object holding the
   same starting tree. *)
C15_TraceDeterminism ==
    Returned /\ hist.op \in Operations =>
        Sig(steps) = Sig(Again(hist.op, hist.tree, hist.key))

(* C15 witness: a delete with rotations has returned on a tree object whose
   tracer had recorded earlier operations, from a tree of three or more
   nodes *)
C15_Witness ==
    /\ Completed("delete")
    /\ TreeCount(hist.tree) >= 3
    /\ stepsId # 2
    /\ Len(steps) > 20
    /\ \E i \in 1..Len(steps) : steps[i].funcName \in {"rotateLeft", "rotateRight"}
    /\ Sig(steps) = Sig(Again("delete", hist.tree, hist.key))

----------------------------------------------------------------------------
(* Assignments to this.root *)

(* the public operation's own activation record is the only one *)
OnlyPublic ==
    /\ Len(stack) = 1
    /\ stack[1].fn \in {"LLRBTree.insert", "LLRBTree.deleteMin", "LLRBTree.delete"}

(* the step taken is the return of a public operation that was running *)
PublicReturns == stack # <<>> /\ stack' = <<>>

(* C16: during a public operation this.root is assigned at most once, and
   only after the top-level recursive call has returned and the tracer's call
   stack is empty; it is never assigned while a recursive call is active.
   Until it returns an operation sees this.root change only in a step taken
   with no recursive call active and an empty call stack, to the node the
   top-level call returned, and from the root the operation started with (so
   it changes once at most); returning does not change the tree; outside
   insert, delete and deleteMin only clear() changes the root. *)
C16_RootAssignedOnce ==
    [][/\ stack # <<>> /\ ~PublicReturns /\ root' # root =>
            /\ OnlyPublic
            /\ callStack = <<>>
            /\ callStack' = <<>>
            /\ root' = ret
            /\ root = RootOf(hist.tree, 0)
       /\ PublicReturns => serializeNode(nodes', root') = TreeNow
       /\ Idle /\ root' # root => hist'.op = "clear" /\ root' = Null]_vars

(* C16 witness: insert has just assigned this.root a node other than the root
   it started with, and has not yet returned *)
C16_Witness ==
    /\ OnlyPublic
    /\ ~fault
    /\ stack[1].fn = "LLRBTree.insert"
    /\ stack[1].pc = "2"
    /\ hist.tree # NullTree
    /\ root # RootOf(hist.tree, 0)
    /\ root = ret
    /\ callStack = <<>>

----------------------------------------------------------------------------
(* The tracer's call stack *)

SelectFn(stk) == [i \in 1..Len(stk) |-> stk[i].fn]
SelectFuncName(cs) == [i \in 1..Len(cs) |-> cs[i].funcName]

IsTraced(frame) ==
    /\ frame.fn \notin {"LLRBTree.insert", "LLRBTree.deleteMin", "LLRBTree.delete"}
    /\ frame.pc # "entry"

(* the calls still active that have executed their pushCall, oldest first *)
ActiveCalls(stk) == SelectFn(SelectSeq(stk, IsTraced))

(* C17: every frame pushed for a call is popped exactly once when that call
   returns, on every return path: after every step of the program the
   tracer's call stack holds exactly the calls still active (a call from its
   pushCall to its return), in order, so it is empty whenever a public
   operation returns, and the call stack captured in a step has the depth of
   the calls active at that step. *)
C17_CallStackMatchesCalls ==
    [][/\ SelectFuncName(callStack') = ActiveCalls(stack')
       /\ stack' = <<>> => callStack' = <<>>
       /\ StepCaptured =>
            SelectFuncName(steps'[Len(steps')].callStack) = ActiveCalls(stack')]_vars

(* C17 witness: a call of deleteRecursive has just returned through its early
   return (line 13, return null) to the call of deleteRecursive that made it;
   its frame is popped and two calls are still on the call stack *)
C17_Witness ==
    /\ ~fault
    /\ Len(stack) = 3
    /\ stack[3].fn = "delete"
    /\ stack[3].pc \in {"6r", "22r"}
    /\ ret = Null
    /\ Len(callStack) = 2
    /\ steps[Len(steps)].funcName = "delete"
    /\ steps[Len(steps)].lineNumber = 13
    /\ Len(steps[Len(steps)].callStack) = 3

----------------------------------------------------------------------------
(* The log of one operation *)

LastStep(seq) == seq[Len(seq)]

(* C18: the step array a public operation returns consists of exactly the
   steps addStep added during that operation, in the order of the addStep
   calls, and of no step of an earlier operation: the call of an operation
   leaves in the log only the operation's own first step (none for clear),
   each later step of the program keeps the tracer's array object, keeps the
   steps in it and appends at most the one step captured then (the tree and
   the call stack of that moment), and the array returned is that array. *)
C18_LogIsOneOperation ==
    [][/\ Idle /\ hist'.op \in Operations =>
            /\ Len(steps') = 1
            /\ steps'[1].funcName = hist'.op
            /\ steps'[1].lineNumber = -1
            /\ steps'[1].treeState = TreeNow
       /\ Idle /\ hist'.op = "clear" => steps' = <<>>
       /\ stack # <<>> =>
            /\ stepsId' = stepsId
            /\ IsPrefix(steps, steps')
            /\ Len(steps') <= Len(steps) + 1
       /\ StepCaptured =>
            /\ LastStep(steps').callStack = callStack'
            /\ LastStep(steps').treeState = serializeNode(nodes', root')
       /\ stack' = <<>> /\ hist'.op \in Operations => heldId' = stepsId']_vars

(* C18 witness: an insert that followed other operations on a tree of two or
   more nodes has returned; its array starts with its own first step and ends
   with its last *)
C18_Witness ==
    /\ Completed("insert")
    /\ stepsId # 2
    /\ heldId = stepsId
    /\ TreeCount(hist.tree) >= 2
    /\ Len(steps) > 10
    /\ steps[1].variables = [key |-> hist.key]
    /\ LastStep(steps).variables = [key |-> hist.key, result |-> "complete"]

----------------------------------------------------------------------------
(* Scenarios *)

(* the tree after insert(1), insert(2) on an empty tree: 2 (black) with the
   red left child 1 *)
AfterOneTwo ==
    [value |-> 2, color |-> "black", left |-> Leaf(1, "red"), right |-> NullTree]

(* 2 (black) with children 1 (black) and 3 (black), and no other node *)
AfterOneTwoThree ==
    [value |-> 2, color |-> "black",
     left |-> Leaf(1, "black"), right |-> Leaf(3, "black")]

InsertDone(key, t) == Completed("insert") /\ hist.key = key /\ hist.tree = t

(* C19: inserting 1, then 2, then 3 into an empty tree yields a root with
   value 2 (black), left child 1 (black), right child 3 (black) and no other
   node: insert(1) on the empty tree yields the single black node 1,
   insert(2) on that tree yields 2 (black) over 1 (red), and insert(3) on that
   tree yields the tree stated. *)
C19_AscendingInserts ==
    /\ InsertDone(1, NullTree) => TreeNow = Leaf(1, "black")
    /\ InsertDone(2, Leaf(1, "black")) => TreeNow = AfterOneTwo
    /\ InsertDone(3, AfterOneTwo) =>
          /\ TreeNow = AfterOneTwoThree
          /\ getStats = [nodeCount |-> 3, height |-> 2]

(* C19 witness: the third insert has returned, after a color flip at the
   root *)
C19_Witness ==
    /\ InsertDone(3, AfterOneTwo)
    /\ TreeNow = AfterOneTwoThree
    /\ \E i \in 1..Len(steps) : steps[i].funcName = "colorFlip"
    /\ \A i \in 1..Len(steps) : steps[i].funcName # "rotateLeft"

(* the only key of a one-node tree has been deleted, by delete(k) or by
   deleteMin() *)
OnlyKeyDeleted ==
    /\ Completed("delete") \/ Completed("deleteMin")
    /\ TreeCount(hist.tree) = 1
    /\ hist.op = "delete" => hist.key = hist.tree.value

(* C20: deleting the only key of a one-node tree, by delete(k) or by
   deleteMin(), leaves the root null and getStats() equal to
   { nodeCount: 0, height: 0 }. *)
C20_DeleteOnlyKey ==
    OnlyKeyDeleted =>
        /\ root = Null
        /\ getStats = [nodeCount |-> 0, height |-> 0]
        /\ LastStep(steps).treeState = NullTree

(* C20 witness: delete(k) has returned on the one-node tree holding k *)
C20_Witness ==
    /\ OnlyKeyDeleted
    /\ hist.op = "delete"
    /\ root = Null
    /\ \E i \in 1..Len(steps) : steps[i].funcName = "delete" /\ steps[i].lineNumber = 13

----------------------------------------------------------------------------
(* heap.js, class Heap.  A node id "n<k>" is the number k.  The Map holds    *)
(* references to record objects; the code that calls the heap holds         *)
(* references too, and may write to the object it holds.                    *)

(* Bounds of the heap model *)
MaxAlloc == 3
HeapIds == 1..MaxAlloc
HeapValues == {1, 2}
Colors == {"red", "black"}

(* a record object the heap does not know yet *)
FreshObj == CHOOSE r \in 1..(MaxAlloc + 2) : r \notin DOMAIN hObjs

(* Map.set and Map.delete *)
MapSet(map, k, v) == [i \in DOMAIN map \cup {k} |-> IF i = k THEN v ELSE map[i]]
MapDelete(map, k) == [i \in DOMAIN map \ {k} |-> map[i]]

(* the objects the Map and the caller refer to, each once, in the order of
   the ids and then the caller's *)
RECURSIVE RefsFrom(_, _, _)
RefsFrom(map, held, i) ==
    IF i = 0 THEN <<>>
    ELSE LET before == RefsFrom(map, held, i - 1)
             r == IF i > MaxAlloc THEN held
                  ELSE IF i \in DOMAIN map THEN map[i] ELSE 0
         IN IF r = 0 \/ r \in Range(before) THEN before ELSE Append(before, r)

(* The heap after a call.  Objects nothing refers to any more are garbage,
   and the identity of the others (only ever compared with each other) is
   renamed to their place in RefsFrom. *)
HeapCommit(map, objs, held) ==
    LET order == RefsFrom(map, held, MaxAlloc + 1)
    IN /\ hNodes' = [i \in DOMAIN map |-> Rank(order, map[i])]
       /\ hObjs' = [k \in 1..Len(order) |-> objs[order[k]]]
       /\ callerRec' = Rank(order, held)

nextIdStuck(n) == n

(* this.nextId++ *)
nextIdAfter(n) == n + 1

HeapCalled(op, id, value, color) == [op |-> op, id |-> id, value |-> value, color |-> color]

(* { value, color, left: null, right: null } *)
NewRecord(value, color) ==
    [value |-> value, color |-> color, left |-> Null, right |-> Null]

(* Heap.allocate(value, color) *)
HeapAllocate(value, color) ==
    /\ hNextId <= MaxAlloc
    /\ LET id == hNextId
           obj == FreshObj
       IN /\ hNextId' = nextIdAfter(hNextId)
          /\ HeapCommit(MapSet(hNodes, id, obj),
                        MapSet(hObjs, obj, NewRecord(value, color)), callerRec)
          /\ hCall' = HeapCalled("allocate", id, value, color)
          /\ hIssued' = hIssued \cup {id}
    /\ UNCHANGED <<treeVars, ctxVars, appVars>>


(* Heap.get(id): the stored object itself, by reference (0: null or
   undefined) *)
get(map, id) == IF id # Null /\ id \in DOMAIN map THEN map[id] ELSE 0

(* const record = heap.get(id) *)
HeapGet(id) ==
    /\ HeapCommit(hNodes, hObjs, get(hNodes, id))
    /\ hCall' = HeapCalled("get", 0, 0, "")
    /\ UNCHANGED <<hNextId, hIssued, treeVars, ctxVars, appVars>>

(* the caller writes a field of the record object it holds: record.color = c *)
CallerWrites(c) ==
    /\ callerRec # 0
    /\ hObjs[callerRec].color # c
    /\ hObjs' = [hObjs EXCEPT ![callerRec].color = c]
    /\ hCall' = HeapCalled("write", 0, 0, "")
    /\ UNCHANGED <<hNodes, hNextId, callerRec, hIssued, treeVars, ctxVars, appVars>>

(* Heap.set(id, data): the Map refers to the object it is given *)
set(map, id, data) == MapSet(map, id, data)

(* heap.set(id, record) with the object the caller holds *)
HeapSet(id) ==
    /\ callerRec # 0
    /\ HeapCommit(set(hNodes, id, callerRec), hObjs, callerRec)
    /\ hCall' = HeapCalled("set", 0, 0, "")
    /\ UNCHANGED <<hNextId, hIssued, treeVars, ctxVars, appVars>>

(* heap.set(id, record) with a new object, which the caller goes on holding *)
HeapSetNew(id, value, color) ==
    /\ LET obj == FreshObj
       IN HeapCommit(set(hNodes, id, obj),
                     MapSet(hObjs, obj, NewRecord(value, color)), obj)
    /\ hCall' = HeapCalled("set", 0, 0, "")
    /\ UNCHANGED <<hNextId, hIssued, treeVars, ctxVars, appVars>>

(* Heap.delete(id) *)
HeapDelete(id) ==
    /\ id \in DOMAIN hNodes
    /\ HeapCommit(MapDelete(hNodes, id), hObjs, callerRec)
    /\ hCall' = HeapCalled("delete", 0, 0, "")
    /\ UNCHANGED <<hNextId, hIssued, treeVars, ctxVars, appVars>>

snapshotEmpty(map, objs) == <<>>

(* Heap.snapshot(): structuredClone(Object.fromEntries(this.nodes)), a copy
   of every record by value *)
snapshot(map, objs) == [id \in DOMAIN map |-> objs[map[id]]]

(* the caller takes a snapshot; it drops the record it held *)
HeapSnapshot ==
    /\ hCall.op # "snapshot"
    /\ hCall' = HeapCalled("snapshot", 0, 0, "")
    /\ HeapCommit(hNodes, hObjs, 0)
    /\ UNCHANGED <<hNextId, hIssued, treeVars, ctxVars, appVars>>

HeapNext ==
    \/ \E value \in HeapValues, color \in Colors : HeapAllocate(value, color)
    \/ \E id \in HeapIds : HeapGet(id)
    \/ \E c \in Colors : CallerWrites(c)
    \/ \E id \in HeapIds : HeapSet(id)
    \/ \E id \in HeapIds, value \in HeapValues, color \in Colors : HeapSetNew(id, value, color)
    \/ \E id \in HeapIds : HeapDelete(id)
    \/ HeapSnapshot

HeapSpec == Init /\ [][HeapNext]_vars

(* heap.js used for a tree: nodes are allocated with their id as value, and
   a child link or the color of a stored record is changed by storing a
   changed copy of it; the caller keeps no record *)
HeapLinks(id, field, x) ==
    /\ id \in DOMAIN hNodes
    /\ LET obj == FreshObj
           old == hObjs[get(hNodes, id)]
           new == IF field = "left" THEN [old EXCEPT !.left = x]
                  ELSE IF field = "right" THEN [old EXCEPT !.right = x]
                  ELSE [old EXCEPT !.color = IF @ = "red" THEN "black" ELSE "red"]
       IN /\ new # old
          /\ HeapCommit(set(hNodes, id, obj), MapSet(hObjs, obj, new), 0)
    /\ hCall' = HeapCalled("set", 0, 0, "")
    /\ UNCHANGED <<hNextId, hIssued, treeVars, ctxVars, appVars>>

HeapTreeNext ==
    \/ HeapAllocate(hNextId, "red")
    \/ \E id \in HeapIds, x \in HeapIds \cup {Null} : HeapLinks(id, "left", x)
    \/ \E id \in HeapIds, x \in HeapIds \cup {Null} : HeapLinks(id, "right", x)
    \/ \E id \in HeapIds : HeapLinks(id, "color", Null)
    \/ \E id \in HeapIds : HeapDelete(id)

HeapTreeSpec == Init /\ [][HeapTreeNext]_vars

(* the depth at which a recursion over the heap has met some id twice: the
   links form a cycle and the recursion ends in a RangeError *)
MaxDepth == MaxAlloc + 1

RangeError == [error |-> "RangeError"]

(* a RangeError in a subtree is one of the whole call *)
TreeOrError(value, color, left, right) ==
    IF left = RangeError \/ right = RangeError THEN RangeError
    ELSE [value |-> value, color |-> color, left |-> left, right |-> right]

(* TreeVisualizer.buildTreeFromHeap(heap, nodeId), stopAtNodes = null *)
RECURSIVE buildTreeFromHeap(_, _, _)
buildTreeFromHeap(heap, nodeId, depth) ==
    IF nodeId = Null THEN NullTree
    ELSE IF nodeId \notin DOMAIN heap THEN NullTree
    ELSE IF depth = 0 THEN RangeError
    ELSE LET node == heap[nodeId]
         IN TreeOrError(node.value, node.color,
                        buildTreeFromHeap(heap, node.left, depth - 1),
                        buildTreeFromHeap(heap, node.right, depth - 1))

----------------------------------------------------------------------------
(* heap.js: ExecutionContext, the stack of frames with local variables *)

MaxFrames == 3
FuncNames == {"insert", "rotateLeft"}
VarNames == {"h", "x"}
NodeIds == {Null, 1}

(* the call made last; popped is the frame the last popFrame removed, until
   the next pushFrame or setLocalVar *)
CtxCalled(op, name, result, popped) ==
    [op |-> op, name |-> name, result |-> result, popped |-> popped]

outermost(stk) == 1

(* this.stack[this.stack.length - 1] *)
innermost(stk) == Len(stk)

(* obj[name] of a plain object: undefined when the name is not set *)
Lookup(obj, name) == IF name \in DOMAIN obj THEN obj[name] ELSE Undefined

pushFrame(stk, funcName, params) ==
    Append(stk, [funcName |-> funcName, params |-> params, vars |-> EmptyVars])

popFrame(stk) == IF stk = <<>> THEN stk ELSE SubSeq(stk, 1, Len(stk) - 1)

setLocalVar(stk, name, nodeId) ==
    IF Len(stk) > 0
    THEN [stk EXCEPT ![innermost(stk)].vars = MapSet(@, name, nodeId)]
    ELSE stk

getLocalVar(stk, name) ==
    IF Len(stk) > 0 THEN Lookup(stk[innermost(stk)].vars, name) ELSE Null

PushFrame(funcName) ==
    /\ Len(ctxStack) < MaxFrames
    /\ ctxStack' = pushFrame(ctxStack, funcName, EmptyVars)
    /\ ctxCall' = CtxCalled("pushFrame", "", Null, <<>>)
    /\ UNCHANGED <<treeVars, heapVars, appVars>>

PopFrame ==
    /\ ctxStack' = popFrame(ctxStack)
    /\ ctxCall' = CtxCalled("popFrame", "", Null,
                            IF ctxStack = <<>> THEN <<>> ELSE ctxStack[Len(ctxStack)].vars)
    /\ UNCHANGED <<treeVars, heapVars, appVars>>

SetLocalVar(name, nodeId) ==
    /\ ctxStack' = setLocalVar(ctxStack, name, nodeId)
    /\ ctxCall' = CtxCalled("setLocalVar", name, nodeId, <<>>)
    /\ UNCHANGED <<treeVars, heapVars, appVars>>

GetLocalVar(name) ==
    /\ ctxCall' = CtxCalled("getLocalVar", name, getLocalVar(ctxStack, name), ctxCall.popped)
    /\ UNCHANGED <<ctxStack, treeVars, heapVars, appVars>>

ContextNext ==
    \/ \E funcName \in FuncNames : PushFrame(funcName)
    \/ PopFrame
    \/ \E name \in VarNames, nodeId \in NodeIds : SetLocalVar(name, nodeId)
    \/ \E name \in VarNames : GetLocalVar(name)

ContextSpec == Init /\ [][ContextNext]_vars

----------------------------------------------------------------------------
(* pseudocode.js: the stepper of class PseudocodeDisplay and the playback
   controls of class LLRBApp.  Steps are represented by their number. *)

MaxSteps == 6

(* the fields as one record; result is the value the method called last
   returned *)
App == [steps |-> pdSteps, index |-> currentStepIndex, isPlaying |-> isPlaying,
        playInterval |-> playInterval, playDisabled |-> playDisabled, result |-> FALSE]

AppCommit(a, op) ==
    /\ pdSteps' = a.steps
    /\ currentStepIndex' = a.index
    /\ isPlaying' = a.isPlaying
    /\ playInterval' = a.playInterval
    /\ playDisabled' = a.playDisabled
    /\ appCall' = [op |-> op, result |-> a.result]
    /\ UNCHANGED <<quiet, treeVars, heapVars, ctxVars>>

(* the step array an operation of the tree returned, of n steps *)
StepArray(n) == [i \in 1..n |-> i]

(* PseudocodeDisplay.loadSteps *)
loadSteps(a, newSteps) == [a EXCEPT !.steps = newSteps, !.index = 0]

goToStepUnchecked(a, index) == [a EXCEPT !.index = index]

(* PseudocodeDisplay.goToStep *)
goToStep(a, index) ==
    IF index < 0 \/ index >= Len(a.steps) THEN a ELSE [a EXCEPT !.index = index]

stepForwardAlways(a) == [a EXCEPT !.index = @ + 1, !.result = TRUE]

(* PseudocodeDisplay.stepForward *)
stepForward(a) ==
    IF a.index < Len(a.steps) - 1
    THEN [a EXCEPT !.index = @ + 1, !.result = TRUE]
    ELSE [a EXCEPT !.result = FALSE]

(* PseudocodeDisplay.stepBackward *)
stepBackward(a) ==
    IF a.index > 0
    THEN [a EXCEPT !.index = @ - 1, !.result = TRUE]
    ELSE [a EXCEPT !.result = FALSE]

(* PseudocodeDisplay.clear *)
pseudocodeClear(a) == [a EXCEPT !.steps = <<>>, !.index = 0]

stopPlaybackKeepsTimer(a) == [a EXCEPT !.isPlaying = FALSE]

(* LLRBApp.stopPlayback: clearInterval *)
stopPlayback(a) == [a EXCEPT !.isPlaying = FALSE, !.playInterval = 0]

atEnd(a) == a.index >= Len(a.steps) - 1

(* LLRBApp.updateStepButtons *)
updateStepButtons(a) ==
    LET b == [a EXCEPT !.playDisabled = Len(a.steps) <= 1]
    IN IF atEnd(b) /\ b.isPlaying THEN stopPlayback(b) ELSE b

(* LLRBApp.afterStepChanged *)
afterStepChanged(a) == updateStepButtons(a)

(* LLRBApp.configureStepperForSteps: the display jumps to the last step *)
configureStepperForSteps(a) ==
    updateStepButtons(goToStep(stopPlayback(a), Max(0, Len(a.steps) - 1)))

(* LLRBApp.resetStepper *)
resetStepper(a) == [a EXCEPT !.playDisabled = TRUE]

(* LLRBApp.jumpToStep *)
jumpToStep(a, index) == afterStepChanged(goToStep(stopPlayback(a), index))

(* LLRBApp.handleStepBack *)
handleStepBack(a) ==
    LET b == stepBackward(stopPlayback(a))
    IN IF b.result THEN afterStepChanged(b) ELSE b

(* LLRBApp.handleStepForward *)
handleStepForward(a) ==
    LET b == stepForward(a)
    IN IF b.result THEN afterStepChanged(b) ELSE b

(* LLRBApp.startPlayback: setInterval *)
startPlayback(a) ==
    IF a.isPlaying THEN a
    ELSE LET b == IF atEnd(a) THEN jumpToStep(a, 0) ELSE a
         IN [b EXCEPT !.isPlaying = TRUE, !.playInterval = 1]

(* LLRBApp.handlePlayPause *)
handlePlayPause(a) ==
    IF a.playDisabled THEN a
    ELSE IF a.isPlaying THEN stopPlayback(a) ELSE startPlayback(a)

(* the callback of setInterval in startPlayback *)
intervalCallback(a) ==
    LET b == handleStepForward(a)
    IN IF ~b.result THEN stopPlayback(b) ELSE b

(* LLRBApp.handleInsert, handleDelete, handleDeleteMin: the operation's
   steps (one at least) are loaded *)
HandleOperation(n) ==
    /\ ~quiet
    /\ AppCommit(afterStepChanged(configureStepperForSteps(loadSteps(App, StepArray(n)))),
                 "handleOperation")

(* LLRBApp.handleClear *)
HandleClear ==
    /\ ~quiet
    /\ AppCommit(resetStepper(stopPlayback(pseudocodeClear(App))), "handleClear")

(* click on Play/Pause, or the space key *)
HandlePlayPause ==
    /\ ~quiet
    /\ AppCommit(handlePlayPause(App), "handlePlayPause")

(* click on the step-back button, or the left-arrow key *)
HandleStepBack ==
    /\ ~quiet
    /\ AppCommit(handleStepBack(App), "handleStepBack")

(* click on the step-forward button, or the right-arrow key *)
HandleStepForward ==
    /\ ~quiet
    /\ AppCommit(handleStepForward(App), "handleStepForward")

(* click on the enabled button to the first (toEnd false) or last step *)
JumpToStep(toEnd) ==
    /\ ~quiet
    /\ Len(pdSteps) > 0
    /\ IF toEnd THEN ~atEnd(App) ELSE currentStepIndex # 0
    /\ AppCommit(jumpToStep(App, IF toEnd THEN Len(pdSteps) - 1 ELSE 0), "jumpToStep")

(* LLRBApp.handleSliderChange: the enabled slider moved to value *)
HandleSliderChange(value) ==
    /\ ~quiet
    /\ Len(pdSteps) > 0
    /\ value <= Len(pdSteps)
    /\ AppCommit(afterStepChanged(
                     goToStep(App, Max(0, Min(Len(pdSteps) - 1, value - 1)))),
                 "handleSliderChange")

(* the interval timer fires *)
Tick ==
    /\ playInterval # 0
    /\ AppCommit(intervalCallback(App), "tick")

(* from now on the user gives no input *)
UserLeaves ==
    /\ ~quiet
    /\ quiet' = TRUE
    /\ appCall' = [op |-> "none", result |-> FALSE]
    /\ UNCHANGED <<pdSteps, currentStepIndex, isPlaying, playInterval, playDisabled,
                   treeVars, heapVars, ctxVars>>

(* The page's markup (index.html) decides whether the Play button starts
   disabled; either is taken. *)
AppInit ==
    /\ InitTree
    /\ InitHeap
    /\ InitContext
    /\ InitApp
    /\ playDisabled \in BOOLEAN

AppNext ==
    \/ \E n \in 1..MaxSteps : HandleOperation(n)
    \/ HandleClear
    \/ HandlePlayPause
    \/ HandleStepBack
    \/ HandleStepForward
    \/ \E toEnd \in BOOLEAN : JumpToStep(toEnd)
    \/ \E value \in 1..MaxSteps : HandleSliderChange(value)
    \/ Tick
    \/ UserLeaves

AppSpec == AppInit /\ [][AppNext]_vars

(* The browser runs the callback of a pending interval timer every playDelay
   milliseconds until clearInterval. *)
PlaybackSpec == AppSpec /\ WF_vars(Tick)

----------------------------------------------------------------------------
(* The PseudocodeDisplay on its own: its methods called in any order, with
   any step array of MaxSteps steps at most and any integer index from one
   below the first to one above the last *)

GoToArgs == (0 - 1)..(MaxSteps + 1)

(* pseudocode.loadSteps(steps), steps of n elements *)
DisplayLoadSteps(n) ==
    AppCommit(loadSteps(App, IF n = 0 THEN <<>> ELSE StepArray(n)), "loadSteps")

(* pseudocode.goToStep(index) *)
DisplayGoToStep(index) ==
    AppCommit(goToStep(App, index),
              IF index < 0 \/ index >= Len(pdSteps)
              THEN "goToStep out of range" ELSE "goToStep")

(* pseudocode.stepForward() *)
DisplayStepForward == AppCommit(stepForward(App), "stepForward")

(* pseudocode.stepBackward() *)
DisplayStepBackward == AppCommit(stepBackward(App), "stepBackward")

(* pseudocode.clear() *)
DisplayClear == AppCommit(pseudocodeClear(App), "clear")

DisplayNext ==
    \/ \E n \in 0..MaxSteps : DisplayLoadSteps(n)
    \/ \E index \in GoToArgs : DisplayGoToStep(index)
    \/ DisplayStepForward
    \/ DisplayStepBackward
    \/ DisplayClear

DisplaySpec == AppInit /\ [][DisplayNext]_vars

----------------------------------------------------------------------------
(* rotateLeft and rotateRight as functions of the node they are given: the
   call is made on any node with the child it needs, in any tree of
   MaxNodesOfTree nodes at most, whatever its shape and its colors *)

MaxNodesOfTree == 4

(* the trees of n nodes; every node holds 1 until Numbered *)
RECURSIVE TreesOfSize(_)
TreesOfSize(n) ==
    IF n = 0 THEN {NullTree}
    ELSE UNION {{[value |-> 1, color |-> c, left |-> l, right |-> r] :
                    c \in {"red", "black"},
                    l \in TreesOfSize(k), r \in TreesOfSize(n - 1 - k)} :
                k \in 0..(n - 1)}

(* the trees of n nodes at most *)
Shapes(n) == UNION {TreesOfSize(k) : k \in 0..n}

(* the Node objects of a tree, each holding its in-order rank as value *)
Numbered(nds) == [n \in DOMAIN nds |-> [nds[n] EXCEPT !.value = n]]

(* rotateLeft(h) or rotateRight(h) is called *)
RotateInit ==
    /\ InitHeap
    /\ InitContext
    /\ InitApp
    /\ playDisabled = TRUE
    /\ steps = <<>>
    /\ stepsId = 1
    /\ callStack = <<>>
    /\ ret = Undefined
    /\ fault = FALSE
    /\ heldId = 0
    /\ heldOld = <<>>
    /\ sinceClear = Untracked
    /\ \E t \in Shapes(MaxNodesOfTree) \ {NullTree} :
          /\ nodes = Numbered(NodesOf(t, 0))
          /\ root = RootOf(t, 0)
    /\ \E fn \in {"rotateLeft", "rotateRight"}, h \in DOMAIN nodes :
          /\ (IF fn = "rotateLeft" THEN nodes[h].right ELSE nodes[h].left) # Null
          /\ stack = <<Frame([nodes |-> nodes], fn, h, 0)>>
          /\ hist = [op |-> fn, key |-> h, tree |-> nodes, root |-> root,
                     outcome |-> "running"]

RotateNext ==
    \/ RotateLeft
    \/ RotateRight

RotateSpec == RotateInit /\ [][RotateNext]_vars

----------------------------------------------------------------------------
(* the tail of insertRecursive as a function of the node it is given *)

(* insertRecursive from its first tail check (line 9) to its return, run on
   node h of the Node objects nds *)
insertTail(nds, rt, h) ==
    RunToEnd([nodes |-> nds, root |-> rt, steps |-> <<>>, callStack |-> <<>>,
              stack |-> <<[Frame([nodes |-> nds], "insert", h, 0) EXCEPT !.pc = "9"]>>,
              ret |-> Undefined, fault |-> FALSE])

----------------------------------------------------------------------------
(* Properties of the heap *)

(* what Heap.get(id) shows for every id, by value *)
Stored == [id \in DOMAIN hNodes |-> hObjs[hNodes[id]]]

(* C21: a stored record changes only through Heap.set: a step that is not a
   call of set (nor allocate or delete), such as the caller writing to the
   record it got from Heap.get or passed to Heap.set, leaves what
   Heap.get(id) and Heap.snapshot() return as it was. *)
C21_OnlySetChangesRecords ==
    [][hCall'.op \notin {"set", "allocate", "delete"} =>
          /\ Stored' = Stored
          /\ snapshot(hNodes', hObjs') = snapshot(hNodes, hObjs)]_vars

(* C22: every Heap.allocate returns an id that no earlier allocate of this
   heap returned (deleted or not), stores under it a record with the given
   value and color and null left and right, and leaves every other record
   unchanged. *)
C22_AllocateMintsFreshId ==
    [][hCall'.op = "allocate" =>
          LET id == hCall'.id
          IN /\ id \notin hIssued
             /\ hIssued' = hIssued \cup {id}
             /\ DOMAIN hNodes' = DOMAIN hNodes \cup {id}
             /\ Stored'[id] = [value |-> hCall'.value, color |-> hCall'.color,
                               left |-> Null, right |-> Null]
             /\ \A other \in DOMAIN hNodes \ {id} : Stored'[other] = Stored[other]]_vars

(* C22 witness: allocate has returned id 3 after the entry of id 1 was
   deleted and that of id 2 was replaced by set *)
C22_Witness ==
    /\ hCall.op = "allocate"
    /\ hCall.id = 3
    /\ hIssued = {1, 2, 3}
    /\ DOMAIN hNodes = {2, 3}
    /\ Stored[3] = NewRecord(hCall.value, hCall.color)
    /\ Stored[2].color # Stored[3].color

(* the tree found by following the links of the live heap from a node id,
   through Heap.get *)
RECURSIVE LiveTree(_, _)
LiveTree(nodeId, depth) ==
    IF get(hNodes, nodeId) = 0 THEN NullTree
    ELSE IF depth = 0 THEN RangeError
    ELSE LET node == hObjs[get(hNodes, nodeId)]
         IN TreeOrError(node.value, node.color,
                        LiveTree(node.left, depth - 1), LiveTree(node.right, depth - 1))

(* C23: for every heap and every root id, the tree rebuilt by
   buildTreeFromHeap from Heap.snapshot() is the tree found by traversing the
   live heap from that id at the same instant, in values, colors and shape
   (and the one ends in a RangeError on cyclic links exactly if the other
   does). *)
C23_SnapshotRoundTrip ==
    \A rootId \in HeapIds \cup {Null} :
        buildTreeFromHeap(snapshot(hNodes, hObjs), rootId, MaxDepth)
            = LiveTree(rootId, MaxDepth)

(* C23 witness: node 1 has node 2 as left and node 3 as right child, of
   different colors, and the snapshot rebuilds that tree of three nodes *)
C23_Witness ==
    /\ DOMAIN hNodes = {1, 2, 3}
    /\ Stored[1].left = 2
    /\ Stored[1].right = 3
    /\ Stored[2].color # Stored[3].color
    /\ LiveTree(1, MaxDepth) # RangeError
    /\ TreeCount(buildTreeFromHeap(snapshot(hNodes, hObjs), 1, MaxDepth)) = 3

----------------------------------------------------------------------------
(* Properties of the execution context *)

(* the frames below the innermost one *)
Older(stk) == IF stk = <<>> THEN <<>> ELSE SubSeq(stk, 1, Len(stk) - 1)

(* C24: setLocalVar and getLocalVar read and write only the innermost frame.
   pushFrame appends a frame with empty locals and keeps the existing
   frames; setLocalVar(name, id) binds name in the innermost frame and
   leaves its other bindings and every older frame as they were, also a
   binding of the same name; popFrame removes the innermost frame only; and
   getLocalVar(name) changes nothing and returns the innermost frame's own
   binding, so after a popFrame that of the parent frame. *)
C24_InnermostFrameOnly ==
    [][/\ ctxCall'.op = "pushFrame" =>
            /\ Len(ctxStack') = Len(ctxStack) + 1
            /\ Older(ctxStack') = ctxStack
            /\ ctxStack'[Len(ctxStack')].vars = EmptyVars
       /\ ctxCall'.op = "setLocalVar" /\ ctxStack # <<>> =>
            /\ Len(ctxStack') = Len(ctxStack)
            /\ Older(ctxStack') = Older(ctxStack)
            /\ LET old == ctxStack[Len(ctxStack)]
                   new == ctxStack'[Len(ctxStack)]
               IN /\ new.funcName = old.funcName
                  /\ new.params = old.params
                  /\ DOMAIN new.vars = DOMAIN old.vars \cup {ctxCall'.name}
                  /\ new.vars[ctxCall'.name] = ctxCall'.result
                  /\ \A other \in DOMAIN old.vars \ {ctxCall'.name} :
                         new.vars[other] = old.vars[other]
       /\ ctxCall'.op = "popFrame" => ctxStack' = Older(ctxStack)
       /\ ctxCall'.op = "getLocalVar" =>
            /\ ctxStack' = ctxStack
            /\ ctxCall'.result =
                   IF ctxStack = <<>> THEN Null
                   ELSE Lookup(ctxStack[Len(ctxStack)].vars, ctxCall'.name)]_vars

(* C24 witness: in a called frame h was bound to node 1 while the parent
   frame's h was null; after the popFrame, getLocalVar("h") returned the
   parent's null, and the grandparent's frame is still without bindings *)
C24_Witness ==
    /\ ctxCall.op = "getLocalVar"
    /\ ctxCall.name = "h"
    /\ ctxCall.result = Null
    /\ Lookup(ctxCall.popped, "h") = 1
    /\ Len(ctxStack) = 2
    /\ ctxStack[1].vars = EmptyVars
    /\ Lookup(ctxStack[2].vars, "h") = Null

----------------------------------------------------------------------------
(* Properties of the queries and of clear *)

Queries == {"contains", "getStats"}

(* C25: contains(key) and getStats() are read-only and non-tracing: for
   every tree and key, the call leaves the root, every node's value, color
   and children, the tracer's step log (the array and its steps) and the
   tracer's call stack as they were. *)
C25_QueriesChangeNothing ==
    [][Idle /\ hist'.op \in Queries =>
          /\ root' = root
          /\ nodes' = nodes
          /\ TreeNow' = TreeNow
          /\ steps' = steps
          /\ stepsId' = stepsId
          /\ callStack' = callStack
          /\ stack' = <<>>]_vars

(* C25 witness: contains(k) has answered true on a tree of three nodes or
   more while the tracer holds the steps of the last operation *)
C25_Witness ==
    /\ Returned
    /\ hist.op = "contains"
    /\ hist.outcome = "true"
    /\ countNodes(nodes, root) >= 3
    /\ Len(steps) >= 2
    /\ heldId = stepsId

(* a newly constructed tree object *)
NewTree == Fresh(NullTree)

(* the tree object after op(key) has run on it until its return *)
AfterOperation(m, op, key) ==
    LET end == RunToEnd(Enter(op, [m EXCEPT !.steps = <<>>, !.callStack = <<>>], key))
    IN [end EXCEPT !.stack = <<>>]

(* the tree object after a sequence of operations *)
RECURSIVE AfterOperations(_, _)
AfterOperations(m, ops) ==
    IF ops = <<>> THEN m
    ELSE AfterOperations(AfterOperation(m, Head(ops).op, Head(ops).key), Tail(ops))

TreeOf(m) == serializeNode(m.nodes, m.root)

(* C26: after clear(), whatever operations preceded it, the root is null,
   getStats() is {nodeCount: 0, height: 0}, the step log and the call stack
   are empty; and after every operation of a sequence that follows the
   clear() (of MaxOps operations at most) the tree is the one the same
   sequence produces on a newly constructed tree. *)
C26_ClearIsNewTree ==
    [][/\ Idle /\ hist'.op = "clear" =>
            /\ root' = Null
            /\ getStats' = [nodeCount |-> 0, height |-> 0]
            /\ steps' = <<>>
            /\ callStack' = <<>>
       /\ sinceClear'.tracked /\ stack' = <<>> =>
            TreeNow' = TreeOf(AfterOperations(NewTree, sinceClear'.ops))]_vars

(* C26 witness: a tree of three nodes or more was cleared, and the second
   operation after the clear() has returned, leaving two nodes *)
C26_Witness ==
    /\ Returned
    /\ sinceClear.tracked
    /\ Len(sinceClear.ops) = 2
    /\ sinceClear.cleared >= 3
    /\ countNodes(nodes, root) = 2
    /\ TreeNow = TreeOf(AfterOperations(NewTree, sinceClear.ops))

----------------------------------------------------------------------------
(* Properties of the stepper and of playback *)

LastIndex == Len(pdSteps) - 1

(* C27: PseudocodeDisplay.stepForward returns true and increases
   currentStepIndex by exactly one when the index is before the last step,
   and returns false leaving the index unchanged at the last step;
   stepBackward returns true and decreases it by exactly one when the index
   is above 0, and returns false leaving it unchanged at the first step.
   (stepForward is called by handleStepForward and by the timer, stepBackward
   by handleStepBack.) *)
C27_StepperMovesByOne ==
    [][/\ appCall'.op \in {"handleStepForward", "tick"} =>
            /\ pdSteps' = pdSteps
            /\ IF currentStepIndex < LastIndex
               THEN appCall'.result /\ currentStepIndex' = currentStepIndex + 1
               ELSE ~appCall'.result /\ currentStepIndex' = currentStepIndex
       /\ appCall'.op = "handleStepBack" =>
            /\ pdSteps' = pdSteps
            /\ IF currentStepIndex > 0
               THEN appCall'.result /\ currentStepIndex' = currentStepIndex - 1
               ELSE ~appCall'.result /\ currentStepIndex' = currentStepIndex]_vars

(* C27 witness: stepForward has returned false at the last of four steps *)
C27_Witness ==
    /\ appCall.op = "handleStepForward"
    /\ ~appCall.result
    /\ Len(pdSteps) = 4
    /\ currentStepIndex = 3

(* C28: once playback is started on a trace of more than one step and no
   other user input arrives, every timer tick advances the displayed step by
   one, the display eventually reaches the last step, and playback then
   stops by itself, at the tick that reaches it (isPlaying false, interval
   timer cleared); starting playback while already at the last step restarts
   from the first step. *)
C28_PlaybackRunsToEnd ==
    /\ [][/\ appCall'.op = "tick" /\ Len(pdSteps) > 1 =>
               /\ currentStepIndex' = currentStepIndex + 1
               /\ pdSteps' = pdSteps
               /\ IF currentStepIndex' = LastIndex
                  THEN ~isPlaying' /\ playInterval' = 0
                  ELSE isPlaying' /\ playInterval' # 0
          /\ /\ appCall'.op = "handlePlayPause"
             /\ ~isPlaying /\ ~playDisabled
             /\ Len(pdSteps) > 1 /\ currentStepIndex = LastIndex
             => currentStepIndex' = 0 /\ isPlaying' /\ playInterval' # 0]_vars
    /\ (quiet /\ isPlaying /\ Len(pdSteps) > 1)
           ~> (currentStepIndex = LastIndex /\ ~isPlaying /\ playInterval = 0)

(* C28 witness: playback, started at the first of four steps, was left alone
   and has stopped at the tick that reached the last step *)
C28_Witness ==
    /\ quiet
    /\ appCall.op = "tick"
    /\ appCall.result
    /\ Len(pdSteps) = 4
    /\ currentStepIndex = 3
    /\ ~isPlaying
    /\ playInterval = 0

----------------------------------------------------------------------------
(* Termination *)

(* C29: every public operation (insert, delete, deleteMin) on every tree
   reachable by operations terminates: once called it runs to completion,
   no call remains active, no error is raised, and the caller holds the
   tracer's step array with the operation's steps. *)
C29_OperationsTerminate ==
    (stack # <<>>) ~>
        (/\ stack = <<>>
         /\ ~fault
         /\ hist.op \in Operations
         /\ hist.outcome = "complete"
         /\ heldId = stepsId
         /\ steps # <<>>)

(* C29 witness: a delete that went through moveRedRight and fixUp on a tree
   of four nodes has returned its steps *)
C29_Witness ==
    /\ Completed("delete")
    /\ TreeCount(hist.tree) = 4
    /\ heldId = stepsId
    /\ \E i \in 1..Len(steps) : steps[i].funcName = "moveRedRight"
    /\ \E i \in 1..Len(steps) : steps[i].funcName = "fixUp"

----------------------------------------------------------------------------
(* The root's color *)

(* C30: after every insert, delete or deleteMin call that leaves the tree
   non-empty, the root node is black, after any sequence of operations, also
   when the operation's fix-ups returned a red subtree root. *)
C30_RootIsBlack ==
    Returned /\ hist.op \in Operations /\ root # Null =>
        /\ ~isRed(nodes, root)
        /\ TreeNow.color = "black"

(* C30 witness: an insert into a tree with a black root has returned; its
   colorFlip left the root red, as the last step captured inside
   insertRecursive shows, and the root is black now *)
C30_Witness ==
    /\ Completed("insert")
    /\ hist.tree # NullTree
    /\ hist.tree.color = "black"
    /\ \E i \in 1..Len(steps) : steps[i].funcName = "colorFlip"
    /\ steps[Len(steps) - 1].treeState.color = "red"
    /\ steps[Len(steps) - 1].treeState.value = TreeNow.value
    /\ ~isRed(nodes, root)

----------------------------------------------------------------------------
(* The steps of a rotation *)

Rotations == {"rotateLeft", "rotateRight"}

(* the innermost active call is a rotation at position pc *)
RotationAt(pcs) ==
    /\ stack # <<>>
    /\ ~fault
    /\ stack[Len(stack)].fn \in Rotations
    /\ stack[Len(stack)].pc \in pcs

(* the link of node n on the side where h held x (out), and on the side
   where x will hold h (in) *)
LinkOut(nds, fn, n) == IF fn = "rotateLeft" THEN nds[n].right ELSE nds[n].left
LinkIn(nds, fn, n) == IF fn = "rotateLeft" THEN nds[n].left ELSE nds[n].right

(* step s of rotation fn shows x detached: x's subtree is its floating node
   and the tree captured from the root is without x *)
ShowsDetached(s, fn, nds, h, x) ==
    /\ s.funcName = fn
    /\ s.lineNumber = 3
    /\ s.variables = [h |-> nds[h].value, x |-> nds[x].value]
    /\ s.floatingNodes = <<[label |-> "x", tree |-> serializeNode(nds, x)]>>
    /\ nds[h].value \notin TreeKeys(s.floatingNodes[1].tree)
    /\ nds[x].value \notin TreeKeys(s.treeState)

(* C31: every rotateLeft and rotateRight invocation, in any operation at any
   depth, captures a step after x has been detached from h (h.right = x.left,
   resp. h.left = x.right) and before x is given h as its child, and that
   step shows the detached subtree rooted at x: the statement that detaches
   x appends one step, taken while x's link to h is not yet set, whose
   floating node is x's subtree; and the trace of a rotation that has gone
   past it has a step of that rotation, at that depth, with x's subtree as
   the floating node and x absent from the tree captured from the root. *)
C31_DetachmentObservable ==
    [][/\ RotationAt({"3a"}) =>
            LET f == stack[Len(stack)]
            IN /\ stack'[Len(stack)].pc = "3b"
               /\ LinkOut(nodes', f.fn, f.h) = LinkIn(nodes, f.fn, f.x)
               /\ LinkOut(nodes', f.fn, f.h) # f.x
               /\ LinkIn(nodes', f.fn, f.x) = LinkIn(nodes, f.fn, f.x)
               /\ LinkIn(nodes', f.fn, f.x) # f.h
               /\ stepsId' = stepsId
               /\ steps' = Append(steps, LastStep(steps'))
               /\ LastStep(steps').treeState = serializeNode(nodes', root')
               /\ LastStep(steps').callStack = callStack'
               /\ ShowsDetached(LastStep(steps'), f.fn, nodes', f.h, f.x)
       /\ RotationAt({"3b", "4a", "4b", "5", "6", "7"})' =>
            LET f == stack'[Len(stack')]
            IN \E i \in 1..Len(steps') :
                  /\ steps'[i].funcName = f.fn
                  /\ steps'[i].lineNumber = 3
                  /\ steps'[i].callStack = callStack'
                  /\ Len(steps'[i].floatingNodes) = 1
                  /\ steps'[i].floatingNodes[1].tree.value = nodes'[f.x].value
                  /\ nodes'[f.h].value \notin TreeKeys(steps'[i].floatingNodes[1].tree)
                  /\ nodes'[f.x].value \notin TreeKeys(steps'[i].treeState)]_vars

(* C31 witness: a rotateRight called by moveRedLeft inside the recursion of
   a delete has just detached x, and the step captured shows it *)
C31_Witness ==
    /\ RotationAt({"3b"})
    /\ hist.op = "delete"
    /\ stack[Len(stack)].fn = "rotateRight"
    /\ Len(stack) >= 4
    /\ stack[Len(stack) - 1].fn = "moveRedLeft"
    /\ ShowsDetached(LastStep(steps), "rotateRight", nodes,
                     stack[Len(stack)].h, stack[Len(stack)].x)

----------------------------------------------------------------------------
(* Mutations and the steps that record them *)

(* the number of child pointers, node colors and root pointers that differ
   between two instants of the tree object *)
Mutations(nds1, rt1, nds2, rt2) ==
    Cardinality({<<n, field>> \in (DOMAIN nds1 \cap DOMAIN nds2) \X {"left", "right", "color"} :
                    \/ field = "left" /\ nds1[n].left # nds2[n].left
                    \/ field = "right" /\ nds1[n].right # nds2[n].right
                    \/ field = "color" /\ nds1[n].color # nds2[n].color})
    + (IF rt1 # rt2 THEN 1 ELSE 0)

(* a mutation made since the last step was captured shows: the tree reachable
   from the root is no longer the tree that step captured *)
Unrecorded == steps # <<>> /\ LastStep(steps).treeState # TreeNow

(* C32: during every operation, each single mutation of a child pointer, of
   a node color or of the root pointer is followed by a step captured before
   any further such mutation: the statements between two captures, and those
   between the last mutation and the final step, make one mutation at most,
   and none while an earlier mutation is still unrecorded. *)
C32_StepAfterEachMutation ==
    [][stack # <<>> /\ stack' # <<>> =>
          Mutations(nodes, root, nodes', root') + (IF Unrecorded THEN 1 ELSE 0) <= 1]_vars

----------------------------------------------------------------------------
(* Call frames and the steps of a call *)

(* the frame pushed last *)
Innermost(cs) == cs[Len(cs)]

(* C33: each call's frame push is followed at once by a step of that
   function at marker 0, captured with the frame pushed; every step with a
   marker of 0 or more is captured with a non-empty call stack whose
   innermost frame has the step's function name; and the operation's wrapper
   steps (marker -1) are captured with an empty call stack. *)
C33_StepsCarryTheirFrame ==
    [][/\ Len(callStack') = Len(callStack) + 1 =>
            /\ StepCaptured
            /\ callStack' = Append(callStack, Innermost(callStack'))
            /\ LastStep(steps').lineNumber = 0
            /\ LastStep(steps').funcName = Innermost(callStack').funcName
            /\ LastStep(steps').callStack = callStack'
       /\ \A i \in 1..Len(steps') :
            /\ steps'[i].lineNumber >= 0 =>
                  /\ steps'[i].callStack # <<>>
                  /\ Innermost(steps'[i].callStack).funcName = steps'[i].funcName
            /\ steps'[i].lineNumber < 0 =>
                  /\ steps'[i].lineNumber = -1
                  /\ steps'[i].callStack = <<>>
                  /\ steps'[i].funcName \in Operations]_vars

(* C33 witness: a delete has returned whose trace has a fixUp step captured
   three frames deep or more, under a frame of delete, between the two
   wrapper steps *)
C33_Witness ==
    /\ Completed("delete")
    /\ steps[1].lineNumber = -1
    /\ LastStep(steps).lineNumber = -1
    /\ \E i \in 1..Len(steps) :
          /\ steps[i].funcName = "fixUp"
          /\ steps[i].lineNumber = 0
          /\ Len(steps[i].callStack) >= 3
          /\ steps[i].callStack[1].funcName = "delete"

----------------------------------------------------------------------------
(* The first and the last step of a trace *)

(* C34: for every successful insert, delete (key present) and deleteMin
   (tree non-empty), the first step of the returned trace captures the tree
   exactly as it was before the call, and the last step captures the tree
   exactly as it is after the call returns: the values, colors and shape of
   the live tree reachable from the root. *)
C34_TraceEndsShowBeforeAndAfter ==
    Returned /\ hist.op \in Operations /\ hist.outcome = "complete" =>
        /\ steps[1].treeState = hist.tree
        /\ LastStep(steps).treeState = serializeNode(nodes, root)
        /\ LastStep(steps).floatingNodes = <<>>
        /\ heldId = stepsId

(* C34 witness: a delete that rotated has returned on a tree of four nodes;
   its first step shows those four and its last step the three that remain *)
C34_Witness ==
    /\ Completed("delete")
    /\ TreeCount(hist.tree) = 4
    /\ TreeCount(steps[1].treeState) = 4
    /\ TreeCount(LastStep(steps).treeState) = 3
    /\ hist.key \notin TreeKeys(LastStep(steps).treeState)
    /\ LastStep(steps).treeState.value # steps[1].treeState.value
    /\ \E i \in 1..Len(steps) : steps[i].funcName \in Rotations

----------------------------------------------------------------------------
(* The rotations as functions *)

(* the call made in RotateSpec has returned *)
RotationReturned == stack = <<>> /\ ~fault /\ hist.op \in Rotations

(* C35: for every node h with a non-null right child x, rotateLeft(h)
   returns x with x.left = h, h.right = the former x.left, x's color equal
   to h's former color and h red, and changes no other link, color or
   value; rotateRight is the mirror image for a node with a non-null left
   child.  (hist.tree holds the Node objects and hist.root the root as
   they were at the call, and hist.key is h.) *)
C35_RotationResult ==
    RotationReturned =>
        LET before == hist.tree
            h == hist.key
            x == LinkOut(before, hist.op, h)
        IN /\ ret = x
           /\ LinkIn(nodes, hist.op, x) = h
           /\ LinkOut(nodes, hist.op, h) = LinkIn(before, hist.op, x)
           /\ nodes[x].color = before[h].color
           /\ nodes[h].color = RED
           /\ LinkOut(nodes, hist.op, x) = LinkOut(before, hist.op, x)
           /\ LinkIn(nodes, hist.op, h) = LinkIn(before, hist.op, h)
           /\ nodes[x].value = before[x].value
           /\ nodes[h].value = before[h].value
           /\ DOMAIN nodes = DOMAIN before
           /\ \A n \in DOMAIN before \ {h, x} : nodes[n] = before[n]
           /\ root = hist.root

(* C35 witness: rotateRight has returned for a black node h below the root
   whose left child x was red; h has kept its right child and the parent of
   h still points to h *)
C35_Witness ==
    /\ RotationReturned
    /\ hist.op = "rotateRight"
    /\ hist.key # root
    /\ hist.tree[hist.key].color = BLACK
    /\ hist.tree[ret].color = RED
    /\ nodes[ret].color = BLACK
    /\ nodes[ret].right = hist.key
    /\ nodes[hist.key].right # Null
    /\ \E p \in DOMAIN nodes \ {ret} : hist.key \in {nodes[p].left, nodes[p].right}

----------------------------------------------------------------------------
(* Operations on grown trees: a new tree receives the keys 1, 2, ... in
   ascending order, and one more operation is then called on it *)

MaxGrown == 14

(* the tree holds the keys 1..n, each inserted once, in this order, and
   nothing else has been called *)
JustGrown ==
    /\ hist.op \in {"none", "insert"}
    /\ hist.key = countNodes(nodes, root)
    /\ hist.key <= MaxGrown

GrownNext ==
    \/ \E key \in 1..(MaxGrown + 1) : JustGrown /\ Insert(key)
    \/ InsertReturns
    \/ JustGrown /\ DeleteMin
    \/ DeleteMinReturns
    \/ \E key \in 1..MaxGrown : JustGrown /\ Delete(key)
    \/ DeleteReturns
    \/ InsertRecursive
    \/ DeleteMinRecursive
    \/ DeleteRecursive
    \/ RotateLeft
    \/ RotateRight
    \/ ColorFlip
    \/ MoveRedLeft
    \/ MoveRedRight
    \/ FixUp

GrownSpec == Init /\ [][GrownNext]_vars

----------------------------------------------------------------------------
(* fixUp and the tail of insert *)

(* fixUp is called: its frame is new *)
FixUpCalled == Running("fixUp") /\ stack[Len(stack)].pc = "entry"

(* fixUp(h) run from its call to its return *)
fixUpAlone == RunToEnd([Cur EXCEPT !.stack = <<stack[Len(stack)]>>])

(* the tail of insertRecursive run on the node fixUp is called on *)
tailAlone == insertTail(nodes, root, stack[Len(stack)].h)

(* C36: whenever delete or deleteMin calls fixUp(h), fixUp returns the node
   that the three tail checks of insertRecursive return for h, and leaves the
   Node objects (links and colors) and this.root as those checks leave them *)
C36_FixUpIsInsertTail ==
    FixUpCalled =>
        /\ ~fixUpAlone.fault
        /\ ~tailAlone.fault
        /\ fixUpAlone.stack = <<>>
        /\ tailAlone.stack = <<>>
        /\ fixUpAlone.ret = tailAlone.ret
        /\ fixUpAlone.nodes = tailAlone.nodes
        /\ fixUpAlone.root = tailAlone.root

(* C36 witness: fixUp is called on a node whose two children are red: it
   rotates the node left, back right and flips its colors, where the tail of
   insert only flips the colors *)
C36_Witness ==
    /\ FixUpCalled
    /\ bothRed(nodes, stack[Len(stack)].h)
    /\ \E i \in 1..Len(fixUpAlone.steps) :
          /\ i > Len(steps)
          /\ fixUpAlone.steps[i].funcName = "rotateLeft"
    /\ \E i \in 1..Len(fixUpAlone.steps) :
          /\ i > Len(steps)
          /\ fixUpAlone.steps[i].funcName = "rotateRight"
    /\ \A i \in 1..Len(tailAlone.steps) :
          tailAlone.steps[i].funcName \notin Rotations
    /\ fixUpAlone.ret = stack[Len(stack)].h
    /\ fixUpAlone.nodes # nodes

----------------------------------------------------------------------------
(* The depth of the recursion *)

RECURSIVE TreeHeight(_)
TreeHeight(t) ==
    IF t = NullTree THEN 0 ELSE 1 + Max(TreeHeight(t.left), TreeHeight(t.right))

(* the active calls of insertRecursive, deleteRecursive and
   deleteMinRecursive *)
RecursiveFrames ==
    Cardinality({i \in DOMAIN stack : stack[i].fn \in {"insert", "delete", "deleteMin"}})

(* C37: during insert, delete and deleteMin the number of active recursive
   calls is at most the height the tree had when the operation was called,
   plus one *)
C37_DepthWithinHeight ==
    stack # <<>> /\ hist.op \in Operations =>
        RecursiveFrames <= TreeHeight(hist.tree) + 1

----------------------------------------------------------------------------
(* Helpers and the nodes they are called on *)

(* fn is being called: its frame is new *)
CalledNow(fn) == Running(fn) /\ stack[Len(stack)].pc = "entry"

(* the node the innermost call was given *)
GivenNode == stack[Len(stack)].h

(* deleteRecursive is about to evaluate minNode(h.right) *)
MinNodeCalled ==
    /\ Running("delete")
    /\ stack[Len(stack)].pc = "16"
    /\ stack[Len(stack)].key = nodes[GivenNode].value

(* C38: in every operation of every sequence, colorFlip is called on a node
   with two children, rotateLeft on a node with a right child, rotateRight on
   a node with a left child, minNode, moveRedLeft, moveRedRight and fixUp on
   a node, deleteRecursive and deleteMinRecursive on a node; and no
   operation raises a fault *)
C38_HelpersGetNodes ==
    /\ ~fault
    /\ \A fn \in {"colorFlip", "rotateLeft", "rotateRight", "moveRedLeft",
                  "moveRedRight", "fixUp", "delete", "deleteMin"} :
          CalledNow(fn) => GivenNode # Null
    /\ CalledNow("colorFlip") =>
          nodes[GivenNode].left # Null /\ nodes[GivenNode].right # Null
    /\ CalledNow("rotateLeft") => nodes[GivenNode].right # Null
    /\ CalledNow("rotateRight") => nodes[GivenNode].left # Null
    /\ MinNodeCalled => nodes[GivenNode].right # Null

(* C38 witness: in a delete, moveRedRight calls colorFlip on a node whose two
   children are leaves *)
C38_Witness ==
    /\ CalledNow("colorFlip")
    /\ hist.op = "delete"
    /\ Len(stack) >= 3
    /\ stack[Len(stack) - 1].fn = "moveRedRight"
    /\ nodes[nodes[GivenNode].left].left = Null
    /\ nodes[nodes[GivenNode].right].right = Null
    /\ nodes[nodes[GivenNode].right].left = Null

----------------------------------------------------------------------------
(* The index of the PseudocodeDisplay *)

(* 0 for an empty list, else an index of the list *)
IndexInRange ==
    IF Len(pdSteps) = 0 THEN currentStepIndex = 0
    ELSE 0 <= currentStepIndex /\ currentStepIndex <= Len(pdSteps) - 1

(* C39: through every sequence of loadSteps, goToStep, stepForward,
   stepBackward and clear, currentStepIndex is 0 while the list is empty and
   an index of the list otherwise; goToStep with an index below 0 or at or
   above steps.length leaves currentStepIndex (and the list) as it was, and
   loadSteps sets it to 0 *)
C39_IndexStaysInRange ==
    [][/\ IndexInRange
       /\ IndexInRange'
       /\ appCall'.op = "goToStep out of range" =>
             currentStepIndex' = currentStepIndex /\ pdSteps' = pdSteps
       /\ appCall'.op = "loadSteps" => currentStepIndex' = 0]_vars

(* C39 witness: goToStep was called with an index out of range while the
   display stood on the last of several steps *)
C39_Witness ==
    /\ appCall.op = "goToStep out of range"
    /\ Len(pdSteps) > 1
    /\ currentStepIndex = Len(pdSteps) - 1

====
